---- MODULE Spec2Model ----
(***************************************************************************)
(* Model of the coordination layer of dispider_backend:                    *)
(*   - the task dispatch engine (src/tasks/service.py), over one project's *)
(*     task table and result table;                                        *)
(*   - the proxy group manager (src/proxy_manager/service.py), over the    *)
(*     Redis keys it uses and the rules list of clash/config.yml.          *)
(* A PostgreSQL statement is modelled at READ COMMITTED: it reads the      *)
(* snapshot taken when it starts, takes row locks when it runs and makes   *)
(* its writes visible when the session commits.                            *)
(***************************************************************************)
EXTENDS Integers, Sequences, FiniteSets, TLC

\* ---------------------------------------------------------------- bounds
MaxTasks == 2
NumSessions == 2
MaxTime == 3
MaxResults == 2
TimeStep == 300
MaxIndex == 3
MaxRules == 4
MaxFailures == 3
MaxTicks == 2
MaxStart == 10
MaxSeries == 4
MaxCount == 5
MaxIterations == 4
MaxBoots == 1
MaxBatch == 2
MaxRows == 4
MaxLists == 2
MaxLoops == 3
MaxHeld == 3

\* ------------------------------------------------------ program constants
MAX_RETRIES == 3
MAX_FAILURE_COUNT == 3
BLACKLIST_DURATION == 600
VNC_PORT_START == 30000
REDIS_ALERT_PREFIX == "container_alert:"
CONTAINER_HOST == "http://localhost"

NULL == "NULL"
Workers == {"w1", "w2"}
Sessions == 1..NumSessions
Groups == <<"g1", "g2">>
Groups3 == <<"JP-01", "US-01", "HK-01">>
IPs == {"ip1", "ip2"}
Threads == {"req1", "loop"}
\* A key of Redis and a worker_id are the sequences of their parts.
WorkerIds == {<<"w-X">>, <<"w-Y">>, <<REDIS_ALERT_PREFIX, "w-X">>}
Statuses == {"needs_manual_intervention", "running", "exited"}

VARIABLES
    tasks,      \* project_<id>_tasks: row id -> [status, worker_id, claimed_at, retry_count]
    results,    \* project_<id>_results: sequence of [task_id, url]
    sess,       \* database sessions of get_next_task requests in flight
    now,        \* the clock read by NOW() and time.time()
    last,       \* the request that returned last, with what it returned
    handed,     \* <<worker, task id>> pairs returned by get_next_task
    held,       \* worker -> the row a call returned to it as already owned (0: none)
    proxy_groups_list,          \* Redis list: the url-test groups
    proxy_group_rr_index,       \* Redis counter of the round robin
    proxy_group_failure_count,  \* Redis hash: group -> failed probes in a row
    proxy_group_blacklist,      \* Redis hash: group -> blacklist_until
    container_proxy_rules,      \* Redis hash: container ip -> its rule
    config,     \* clash/config.yml: whether it exists, its rules, its url-test groups
    thr,        \* the threads inside the proxy manager: a request handler, the reassign loop
    trip,       \* an assign and the release that follows it
    health,     \* the health check thread: the groups of its iteration not yet updated
    boot,       \* the startup of the backend: its position and what it found
    series,     \* the assigns made: the counter and healthy list they began with, the groups
                \* returned, what each call obtained, whether two calls overlapped
    containers,     \* table containers: the set of its rows [id, host_port, container_id, status]
    container_seq,  \* the last value of the sequence behind containers.id
    batch,      \* start_container_batch requests in flight
    inserted_ports, \* the ports of the rows inserted into containers, in order of insertion
    alert_store,    \* Redis strings: key -> the alert stored under it
    reported,       \* worker_id -> the last status it reported that report_status knows
    alerts_out      \* what get_all_alerts returned last

vars == <<tasks, results, sess, now, last, handed, held,
          proxy_groups_list, proxy_group_rr_index, proxy_group_failure_count,
          proxy_group_blacklist, container_proxy_rules, config, thr, trip,
          health, boot, series, containers, container_seq, batch, inserted_ports,
          alert_store, reported, alerts_out>>
\* the container service
cvars == <<containers, container_seq, batch, inserted_ports>>
\* what a step of the proxy manager leaves alone
tvars == <<tasks, results, sess, last, handed, held, containers, container_seq, batch, inserted_ports,
          alert_store, reported, alerts_out>>
\* what a step of the task engine leaves alone
pvars == <<proxy_groups_list, proxy_group_rr_index, proxy_group_failure_count,
           proxy_group_blacklist, container_proxy_rules, config, thr, trip,
           health, boot, series, containers, container_seq, batch, inserted_ports,
          alert_store, reported, alerts_out>>

\* ------------------------------------------------------------ column names
\* A column name is the sequence of its characters.
N_url == <<"u", "r", "l">>
N_id == <<"i", "d">>
N_status == <<"s", "t", "a", "t", "u", "s">>
N_worker_id == <<"w", "o", "r", "k", "e", "r", "_", "i", "d">>
N_claimed_at == <<"c", "l", "a", "i", "m", "e", "d", "_", "a", "t">>
N_retry_count == <<"r", "e", "t", "r", "y", "_", "c", "o", "u", "n", "t">>
N_note == <<"n", "o", "t", "e">>
N_task_id == <<"t", "a", "s", "k", "_", "i", "d">>
N_1x == <<"1", "x">>

LowerLetters == <<"a", "c", "d", "e", "i", "k", "l", "m", "n", "o", "r", "s", "t", "u", "w", "x", "y">>
UpperLetters == <<"A", "C", "D", "E", "I", "K", "L", "M", "N", "O", "R", "S", "T", "U", "W", "X", "Y">>
Digits == {"0", "1"}

Range(f) == {f[i] : i \in DOMAIN f}

\* str.upper(), character by character
UpperChar(c) ==
    IF \E i \in DOMAIN LowerLetters : LowerLetters[i] = c
    THEN UpperLetters[CHOOSE i \in DOMAIN LowerLetters : LowerLetters[i] = c]
    ELSE c
Upper(name) == [i \in DOMAIN name |-> UpperChar(name[i])]

\* \w: letters, digits and the underscore
WordChar(c) == c \in Range(LowerLetters) \cup Range(UpperLetters) \cup Digits \cup {"_"}

RESERVED_WORDS == {N_id, N_status, N_worker_id, N_claimed_at, N_retry_count, N_note}

\* _validate_column_names: TRUE when no HTTPException is raised
ValidColumnName(name) ==
    /\ Len(name) >= 1
    /\ WordChar(name[1]) /\ name[1] \notin Digits
    /\ \A i \in 2..Len(name) : WordChar(name[i])
    /\ Upper(name) \notin RESERVED_WORDS
validate_column_names(columns) == \A name \in columns : ValidColumnName(name)

\* ------------------------------------------------------------- task table
TaskIds == DOMAIN tasks

\* a row as CREATE TABLE's defaults make it
DefaultRow == [status |-> "pending", worker_id |-> NULL, claimed_at |-> NULL, retry_count |-> 0]

\* the columns of the task table: the fixed ones and the user column url
TaskTableColumns == {N_id, N_status, N_worker_id, N_claimed_at, N_retry_count, N_url}

IdleSession == [pc |-> "idle", w |-> NULL, at |-> 0, existing |-> 0, pend |-> {},
                target |-> 0, ret |-> 0]

NoRequest == [op |-> "none", w |-> NULL, t |-> 0, ret |-> 0]

Min(S) == CHOOSE x \in S : \A y \in S : x <= y

\* row locks held by sessions whose UPDATE is not committed yet
LockedBy(s) == IF sess[s].pc = "exec" /\ sess[s].target # 0 THEN {sess[s].target} ELSE {}
LockedByOthers(s) == UNION {LockedBy(o) : o \in Sessions \ {s}}
Locked(t) == \E s \in Sessions : t \in LockedBy(s)

\* ------------------------------------------------------ get_next_task (SQL)
\* CTE existing_task, read from the statement's snapshot: the lowest-id row
\* that is in_progress and owned by the worker, 0 when there is none
ExistingTask(table, w) ==
    LET own == {t \in DOMAIN table : table[t].worker_id = w /\ table[t].status = "in_progress"}
    IN IF own = {} THEN 0 ELSE Min(own)

\* the rows the snapshot shows as pending (the scan of CTE locked_task)
PendingIn(table) == {t \in DOMAIN table : table[t].status = "pending"}

\* locked_task without SKIP LOCKED and without the wait for the lock
LockedTask_NoSkip(existing, pend, table, lockedOthers) ==
    LET cands == {t \in pend : table[t].status = "pending"}
    IN IF existing # 0 \/ cands = {} THEN 0 ELSE Min(cands)

\* CTE locked_task: ORDER BY id LIMIT 1 FOR UPDATE SKIP LOCKED. A row locked by
\* another session is skipped; a row changed since the snapshot is re-checked
\* against its committed version (READ COMMITTED) and skipped when not pending.
LockedTask(existing, pend, table, lockedOthers) ==
    LET cands == {t \in pend : t \notin lockedOthers /\ table[t].status = "pending"}
    IN IF existing # 0 \/ cands = {} THEN 0 ELSE Min(cands)

\* a SET clause with claimed_at set to the epoch, not to the time of the call
ClaimedRow_Epoch(row, w, at) ==
    [row EXCEPT !.status = "in_progress", !.worker_id = w, !.claimed_at = 0]

\* CTE updated_task: the SET clause
ClaimedRow(row, w, at) ==
    [row EXCEPT !.status = "in_progress", !.worker_id = w, !.claimed_at = at]

\* db.execute(query): the statement starts and takes its snapshot
ClaimStart(s, w) ==
    /\ sess[s].pc = "idle"
    /\ \A o \in Sessions : sess[o].pc = "idle" => s <= o
    /\ sess' = [sess EXCEPT ![s] = [IdleSession EXCEPT
                  !.pc = "snap", !.w = w, !.at = now,
                  !.existing = ExistingTask(tasks, w),
                  !.pend = PendingIn(tasks)]]
    /\ UNCHANGED <<tasks, results, now>>

\* the statement runs: it locks and updates one row, not yet committed;
\* fetchone() is the first row of existing_task UNION ALL updated_task
ClaimExec(s) ==
    /\ sess[s].pc = "snap"
    /\ LET target == LockedTask(sess[s].existing, sess[s].pend, tasks, LockedByOthers(s))
       IN sess' = [sess EXCEPT ![s].pc = "exec", ![s].target = target,
                     ![s].ret = IF sess[s].existing # 0 THEN sess[s].existing ELSE target]
    /\ UNCHANGED <<tasks, results, now>>

\* db.commit() and the return of the TaskResponse (ret = 0: None)
ClaimCommit(s) ==
    /\ sess[s].pc = "exec"
    /\ tasks' = IF sess[s].target = 0 THEN tasks
                ELSE [tasks EXCEPT ![sess[s].target] = ClaimedRow(@, sess[s].w, sess[s].at)]
    /\ sess' = [sess EXCEPT ![s] = IdleSession]
    /\ UNCHANGED <<results, now>>

\* SQLAlchemyError in execute or commit: db.rollback() and raise
ClaimError(s) ==
    /\ sess[s].pc \in {"snap", "exec"}
    /\ sess' = [sess EXCEPT ![s] = IdleSession]
    /\ UNCHANGED <<tasks, results, now>>

\* ------------------------------------------------------- submit_task_result
\* UPDATE ... SET status = 'completed' WHERE id = :task_id
CompleteUpdate(table, t) ==
    IF t \in DOMAIN table THEN [table EXCEPT ![t].status = "completed"] ELSE table

\* results_to_insert with row['task_id'] = task_id
ResultRows(t, data) == [i \in 1..Len(data) |-> [task_id |-> t, url |-> data[i]]]

FailPoints == {"none", "insert", "update", "commit"}

\* INSERT and UPDATE each committed on its own
SubmitTxn_NoRollback(table, rs, t, data, failAt) ==
    [tasks |-> IF failAt \in {"insert", "update"} THEN table ELSE CompleteUpdate(table, t),
     results |-> IF failAt = "insert" THEN rs ELSE rs \o ResultRows(t, data)]

\* with db.begin(): INSERT; UPDATE -- the state the call leaves behind when the
\* database fails at failAt (an exception inside the block rolls everything back)
SubmitTxn(table, rs, t, data, failAt) ==
    LET inserted == rs \o ResultRows(t, data)
        updated == CompleteUpdate(table, t)
    IN IF failAt = "none"
       THEN [tasks |-> updated, results |-> inserted]
       ELSE [tasks |-> table, results |-> rs]

TaskArgs == 1..(MaxTasks + 1)
DataInputs == {<<>>, <<"a">>, <<"a", "a">>}

\* data is the value list of the columnar payload {"url": [...]}; an empty
\* payload takes the branches that only run the UPDATE
SubmitResult(t, data, failAt) ==
    /\ ~Locked(t)
    /\ Len(results) + Len(data) <= MaxResults
    /\ data = <<>> => failAt # "insert"
    /\ LET out == SubmitTxn(tasks, results, t, data, failAt)
       IN /\ tasks' = out.tasks
          /\ results' = out.results
    /\ UNCHANGED <<sess, now>>

\* a SET clause with :max_retries bound to MAX_RETRIES
FailureRow_Late(row) ==
    [row EXCEPT !.status = IF row.retry_count >= MAX_RETRIES THEN "failed" ELSE "pending",
                !.retry_count = row.retry_count + 1,
                !.worker_id = NULL,
                !.claimed_at = NULL]

\* a SET clause that leaves worker_id and claimed_at as they were
FailureRow_Owned(row) ==
    [row EXCEPT !.status = IF row.retry_count >= MAX_RETRIES - 1 THEN "failed" ELSE "pending",
                !.retry_count = row.retry_count + 1]

\* a WHERE clause without status = 'in_progress'
FailureMatches_AnyStatus(table, t) == t \in DOMAIN table

\* ------------------------------------------------------ report_task_failure
\* the SET clause; :max_retries is bound to MAX_RETRIES - 1 and every right-hand
\* side reads the row as it was before the UPDATE
FailureRow(row) ==
    [row EXCEPT !.status = IF row.retry_count >= MAX_RETRIES - 1 THEN "failed" ELSE "pending",
                !.retry_count = row.retry_count + 1,
                !.worker_id = NULL,
                !.claimed_at = NULL]

\* WHERE id = :task_id AND status = 'in_progress'
FailureMatches(table, t) == t \in DOMAIN table /\ table[t].status = "in_progress"

FailureUpdate(table, t) ==
    IF FailureMatches(table, t) THEN [table EXCEPT ![t] = FailureRow(@)] ELSE table

ReportFailure(t, dbOk) ==
    /\ ~Locked(t)
    /\ tasks' = IF dbOk THEN FailureUpdate(tasks, t) ELSE tasks
    /\ UNCHANGED <<results, sess, now>>

\* ------------------------------------------------------------------ add_tasks
\* tasks_data maps a column name to its list of values
UserTaskInputs ==
    { (N_url :> <<"u">>), (N_url :> <<"u", "u">>), (N_url :> <<>>), (N_1x :> <<"u">>) }
AnyTaskInputs ==
    UserTaskInputs \cup
    { (N_url :> <<"u">>) @@ (N_status :> <<"in_progress">>),
      (N_url :> <<"u">>) @@ (N_status :> <<"pending", "in_progress">>) }

NumRows(data) == Len(data[CHOOSE c \in DOMAIN data : TRUE])

\* the row INSERT stores: the columns given, the defaults for the others
InsertedRow(data, i) ==
    [status |-> IF N_status \in DOMAIN data THEN data[N_status][i] ELSE DefaultRow.status,
     worker_id |-> IF N_worker_id \in DOMAIN data THEN data[N_worker_id][i] ELSE DefaultRow.worker_id,
     claimed_at |-> DefaultRow.claimed_at,
     retry_count |-> DefaultRow.retry_count]

\* TRUE when add_tasks reaches db.commit(): the payload is well formed, the
\* column names pass _validate_column_names and name columns of the table
AddAccepted(data) ==
    /\ DOMAIN data # {}
    /\ \A c \in DOMAIN data : Len(data[c]) = NumRows(data)
    /\ NumRows(data) > 0
    /\ validate_column_names(DOMAIN data)
    /\ DOMAIN data \subseteq TaskTableColumns

AddTasks(data) ==
    /\ DOMAIN data # {} => Len(tasks) + NumRows(data) <= MaxTasks
    /\ tasks' = IF AddAccepted(data)
                THEN tasks \o [i \in 1..NumRows(data) |-> InsertedRow(data, i)]
                ELSE tasks
    /\ UNCHANGED <<results, sess, now>>

\* the columns CREATE TABLE gives every task table and every result table
FixedTaskColumns == {N_id, N_status, N_worker_id, N_claimed_at, N_retry_count}
FixedResultColumns == {N_id, N_task_id, N_note}

\* what initialize_tasks_table and initialize_results_table end with: 400 from
\* _validate_column_names, else DROP TABLE is executed and CREATE TABLE
\* refuses a column named twice, which is rolled back and raised, else the
\* commit
InitializeOutcome(columns, fixed) ==
    IF ~validate_column_names(columns) THEN 400
    ELSE IF columns \cap fixed # {} THEN 500
    ELSE 200

\* initialize_tasks_table(db, project_id, columns): the table is dropped and
\* created empty
initialize_tasks_table(columns) ==
    /\ \A s \in Sessions : sess[s].pc = "idle"
    /\ tasks' = IF InitializeOutcome(columns, FixedTaskColumns) = 200 THEN <<>> ELSE tasks
    /\ last' = [op |-> "init_tasks", w |-> NULL, t |-> 0,
                ret |-> InitializeOutcome(columns, FixedTaskColumns)]
    /\ handed' = IF InitializeOutcome(columns, FixedTaskColumns) = 200 THEN {} ELSE handed
    /\ held' = IF InitializeOutcome(columns, FixedTaskColumns) = 200
               THEN [w \in Workers |-> 0] ELSE held
    /\ UNCHANGED <<results, sess, now>>

\* initialize_results_table(db, project_id, columns)
initialize_results_table(columns) ==
    /\ \A s \in Sessions : sess[s].pc = "idle"
    /\ results' = IF InitializeOutcome(columns, FixedResultColumns) = 200 THEN <<>> ELSE results
    /\ last' = [op |-> "init_results", w |-> NULL, t |-> 0,
                ret |-> InitializeOutcome(columns, FixedResultColumns)]
    /\ UNCHANGED <<tasks, sess, now, handed, held>>

\* ======================================================= proxy group manager
\* A Redis hash is a function from its fields to their values.
EmptyHash == [k \in {} |-> 0]
HSet(h, k, v) == [f \in DOMAIN h \cup {k} |-> IF f = k THEN v ELSE h[f]]
HDel(h, k) == [f \in DOMAIN h \ {k} |-> h[f]]

\* the health check thread between two iterations, none made yet
IdleHealth == [pc |-> "sleep", todo |-> {}, started |-> 0, n |-> 0]

\* the backend up and running: startup done, both loops started
IdleBoot == [pc |-> "up", lost |-> "none", kv |-> EmptyHash, list |-> <<>>,
             config |-> [exists |-> FALSE, groups |-> <<>>, rules |-> <<>>, other |-> EmptyHash],
             read |-> FALSE, recovered |-> TRUE, checked |-> TRUE, merged |-> FALSE,
             health_started |-> TRUE, reassign_started |-> TRUE, n |-> 0,
             health_threads |-> 1, reassign_threads |-> 1]

\* a value of a top-level key of config.yml: its YAML type and its text,
\* character by character
YamlValue(type, text) == [type |-> type, text |-> text]

\* merge_and_update_clash_config: port and secret of the configuration made
\* when config.yml is missing
DefaultKeys == [port |-> YamlValue("int", <<"7", "8", "9", "0">>), secret |-> YamlValue("str", <<>>)]

\* merge_and_update_clash_config, step 7: the text written after `key: `: a
\* boolean in lower case, the empty string as two quotes, any other value as
\* str(value), without quotes
FormatValue(value) ==
    IF value.type = "bool"
    THEN [i \in DOMAIN value.text |-> IF value.text[i] = "T" THEN "t"
                                      ELSE IF value.text[i] = "F" THEN "f" ELSE value.text[i]]
    ELSE IF value.type = "str" /\ value.text = <<>> THEN <<"'", "'">>
    ELSE value.text

\* yaml.safe_load of a plain scalar: digits are an integer, true and false a
\* boolean, two quotes the empty string, anything else a string
YamlLoad(text) ==
    IF text # <<>> /\ \A i \in DOMAIN text : text[i] \in {"0", "1", "2", "3", "4", "5", "6", "7", "8", "9"}
    THEN YamlValue("int", text)
    ELSE IF text = <<"t", "r", "u", "e">> THEN YamlValue("bool", <<"T", "r", "u", "e">>)
    ELSE IF text = <<"f", "a", "l", "s", "e">> THEN YamlValue("bool", <<"F", "a", "l", "s", "e">>)
    ELSE IF text = <<"'", "'">> THEN YamlValue("str", <<>>)
    ELSE YamlValue("str", text)

\* a rule of config.yml is the sequence of its comma-separated parts
Rule(container_ip, assigned_group) == <<"SRC-IP-CIDR", <<container_ip, "/32">>, assigned_group>>
NoRule == <<>>
DefaultRules == << <<"GEOIP", "CN", "DIRECT">>, <<"MATCH", "DIRECT">> >>

\* a release that leaves the rules as they are
RemoveFirst_Kept(rules, e) == rules

\* list.remove(e): the list without the first occurrence of e
RemoveFirst(rules, e) ==
    LET i == Min({j \in 1..Len(rules) : rules[j] = e})
    IN SubSeq(rules, 1, i - 1) \o SubSeq(rules, i + 1, Len(rules))

\* the healthy list of the degraded path: every group
HealthyGroups_All(all_groups, current_blacklist) == all_groups

\* the groups of all_groups that are not in the blacklist, in list order
HealthyGroups(all_groups, current_blacklist) ==
    SelectSeq(all_groups, LAMBDA g : g \notin current_blacklist)

\* a read of the blacklist that finds no entry expired
Expired_None(blacklist, current_time) == {}

\* expired_groups: the entries whose blacklist_until current_time has passed
Expired(blacklist, current_time) ==
    {g \in DOMAIN blacklist : current_time > blacklist[g]}

\* the blacklist after HDEL of the groups of expired_groups
Swept(blacklist, expired_groups) ==
    [g \in DOMAIN blacklist \ expired_groups |-> blacklist[g]]

\* the blacklist swept at current_time with nothing running in between
SweepExpired(blacklist, current_time) == Swept(blacklist, Expired(blacklist, current_time))

\* a round robin that takes the counter itself for the position
RoundRobin_NoShift(healthy_groups, current_index) ==
    healthy_groups[(current_index % Len(healthy_groups)) + 1]

\* round robin over the healthy groups with the value INCR returned
RoundRobin(healthy_groups, current_index) ==
    healthy_groups[((current_index - 1) % Len(healthy_groups)) + 1]

\* a fallback that takes the first group whatever the counts
BestGroup_First(all_groups, failure_counts) == all_groups[1]

\* the loop over all_groups from position i on, with min_failures and
\* best_group as found so far
RECURSIVE LeastFailures(_, _, _, _, _)
LeastFailures(all_groups, failure_counts, i, min_failures, best_group) ==
    IF i > Len(all_groups) THEN best_group
    ELSE LET group == all_groups[i]
             failures == IF group \in DOMAIN failure_counts THEN failure_counts[group] ELSE 0
         IN IF failures < min_failures
            THEN LeastFailures(all_groups, failure_counts, i + 1, failures, group)
            ELSE LeastFailures(all_groups, failure_counts, i + 1, min_failures, best_group)

\* best_group: the group the loop ends with, begun with 999999 and all_groups[0]
BestGroup(all_groups, failure_counts) ==
    LeastFailures(all_groups, failure_counts, 1, 999999, all_groups[1])

IdleThread ==
    [pc |-> "idle", op |-> "none", ip |-> NULL, res |-> "none",
     healthy |-> <<>>, current_time |-> 0, expired |-> {}, seen |-> {}, live |-> {},
     group |-> NULL, rules |-> <<>>, rule |-> NoRule,
     wrote |-> TRUE, todo |-> <<>>, snap |-> EmptyHash, bl |-> {},
     due |-> {}, errors |-> {}, reassigned |-> {}, ticks |-> 0, old_group |-> NULL]

\* where a thread goes when release ("release") or assign ("assign") ends
\* with res: inside a reassignment tick release is followed by assign, and
\* assign by the next container, its exception logged; inside
\* force_reassign_container release is followed by assign, whose result or
\* exception ends the call; a request returns
Finish(t, phase, res) ==
    LET c == [t EXCEPT !.healthy = <<>>, !.rules = <<>>, !.rule = NoRule]
    IN IF t.op = "force" /\ phase = "release"
       THEN [c EXCEPT !.pc = "get_healthy"]
       ELSE IF t.op = "tick"
       THEN IF phase = "release"
            THEN [c EXCEPT !.pc = "get_healthy"]
            ELSE [c EXCEPT !.pc = "t_loop", !.todo = Tail(t.todo), !.seen = {}, !.live = {},
                           !.group = NULL, !.ip = NULL,
                           !.reassigned = IF res = "ok" THEN @ \cup {t.ip} ELSE @,
                           !.errors = IF res = "error" THEN @ \cup {t.ip} ELSE @]
       ELSE [c EXCEPT !.pc = "idle", !.res = res, !.seen = {}, !.live = {}]

\* a failed probe of group_name would not take its count past cap
CountBelow(group_name, is_healthy, cap) ==
    IF ~is_healthy /\ group_name \in DOMAIN proxy_group_failure_count
    THEN proxy_group_failure_count[group_name] < cap
    ELSE TRUE

\* update_proxy_group_health(group_name, is_healthy, _): one probe result
update_proxy_group_health(group_name, is_healthy) ==
    /\ IF ~is_healthy
       THEN LET failure_count == IF group_name \in DOMAIN proxy_group_failure_count
                                 THEN proxy_group_failure_count[group_name] + 1 ELSE 1
            IN /\ proxy_group_failure_count' = HSet(proxy_group_failure_count, group_name, failure_count)
               /\ proxy_group_blacklist' =
                    IF failure_count >= MAX_FAILURE_COUNT
                    THEN HSet(proxy_group_blacklist, group_name, now + BLACKLIST_DURATION)
                    ELSE proxy_group_blacklist
       ELSE /\ proxy_group_failure_count' = HDel(proxy_group_failure_count, group_name)
            /\ proxy_group_blacklist' = HDel(proxy_group_blacklist, group_name)
    /\ UNCHANGED <<proxy_groups_list, proxy_group_rr_index, container_proxy_rules, config, thr, now>>

\* assign_proxy_to_container(container_ip) is called
CallAssign(x, container_ip) ==
    /\ thr[x].pc = "idle"
    /\ thr' = [thr EXCEPT ![x] = [IdleThread EXCEPT !.pc = "get_healthy", !.op = "assign",
                                                    !.ip = container_ip]]
    /\ UNCHANGED <<proxy_groups_list, proxy_group_rr_index, proxy_group_failure_count,
                   proxy_group_blacklist, container_proxy_rules, config, now>>

\* get_healthy_proxy_groups(), its reads: HGETALL of the blacklist and
\* time.time(), which settle expired_groups
ReadBlacklist(x) ==
    /\ thr[x].pc = "get_healthy"
    /\ thr' = [thr EXCEPT ![x].pc = "sweep",
                          ![x].current_time = now,
                          ![x].expired = Expired(proxy_group_blacklist, now)]
    /\ UNCHANGED <<proxy_groups_list, proxy_group_rr_index, proxy_group_failure_count,
                   proxy_group_blacklist, container_proxy_rules, config, now>>

\* get_healthy_proxy_groups(), its writes and its result: HDEL of every group
\* of expired_groups, HKEYS, and the groups outside the blacklist that is
\* left; seen is that blacklist and live its groups whose blacklist_until is
\* later than current_time
get_healthy_proxy_groups(x) ==
    /\ thr[x].pc = "sweep"
    /\ LET current_blacklist == Swept(proxy_group_blacklist, thr[x].expired)
       IN /\ proxy_group_blacklist' = current_blacklist
          /\ thr' = [thr EXCEPT ![x].pc = "choose",
                                ![x].expired = {},
                                ![x].current_time = 0,
                                ![x].healthy = HealthyGroups(proxy_groups_list, DOMAIN current_blacklist),
                                ![x].seen = DOMAIN current_blacklist,
                                ![x].live = {g \in DOMAIN current_blacklist :
                                                current_blacklist[g] > thr[x].current_time}]
    /\ UNCHANGED <<proxy_groups_list, proxy_group_rr_index, proxy_group_failure_count,
                   container_proxy_rules, config, now>>

\* a choice that reads the counter and leaves it as it is
ChooseGroup_Get(x) ==
    /\ thr[x].pc = "choose"
    /\ thr[x].healthy # <<>>
    /\ thr' = [thr EXCEPT ![x].pc = "read",
                          ![x].group = RoundRobin(thr[x].healthy, proxy_group_rr_index + 1)]
    /\ UNCHANGED <<proxy_groups_list, proxy_group_rr_index, proxy_group_failure_count,
                   proxy_group_blacklist, container_proxy_rules, config, now>>

\* the choice of assigned_group: round robin over the healthy groups, else the
\* group with the fewest failures, the list taken from config.yml when Redis
\* has none
ChooseGroup(x) ==
    /\ thr[x].pc = "choose"
    /\ IF thr[x].healthy # <<>>
       THEN /\ proxy_group_rr_index < MaxIndex
            /\ proxy_group_rr_index' = proxy_group_rr_index + 1
            /\ thr' = [thr EXCEPT ![x].pc = "read",
                                  ![x].group = RoundRobin(thr[x].healthy, proxy_group_rr_index + 1)]
            /\ UNCHANGED proxy_groups_list
       ELSE LET all_groups == IF proxy_groups_list # <<>> THEN proxy_groups_list
                              ELSE IF config.exists THEN config.groups ELSE <<>>
            IN /\ proxy_groups_list' = all_groups
               /\ thr' = [thr EXCEPT ![x] =
                            IF all_groups = <<>>
                            THEN Finish(thr[x], "assign", "error")
                            ELSE [thr[x] EXCEPT !.pc = "read",
                                                !.group = BestGroup(all_groups, proxy_group_failure_count)]]
               /\ UNCHANGED proxy_group_rr_index
    /\ UNCHANGED <<proxy_group_failure_count, proxy_group_blacklist, container_proxy_rules, config, now>>

\* config.yml is read and the new rule put at the head of its rules
ReadConfig(x) ==
    /\ thr[x].pc = "read"
    /\ config.exists => Len(config.rules) < MaxRules
    /\ thr' = [thr EXCEPT ![x] =
                 IF ~config.exists
                 THEN Finish(thr[x], "assign", "error")
                 ELSE [thr[x] EXCEPT !.pc = "write",
                                     !.rule = Rule(thr[x].ip, thr[x].group),
                                     !.rules = <<Rule(thr[x].ip, thr[x].group)>> \o config.rules]]
    /\ UNCHANGED <<proxy_groups_list, proxy_group_rr_index, proxy_group_failure_count,
                   proxy_group_blacklist, container_proxy_rules, config, now>>

\* config.yml is written; a failure to open it is raised to the caller
WriteConfig(x, ok) ==
    /\ thr[x].pc = "write"
    /\ config' = IF ok THEN [config EXCEPT !.exists = TRUE, !.rules = thr[x].rules] ELSE config
    /\ thr' = [thr EXCEPT ![x] = IF ok THEN [thr[x] EXCEPT !.pc = "restart"]
                                 ELSE Finish(thr[x], "assign", "error")]
    /\ UNCHANGED <<proxy_groups_list, proxy_group_rr_index, proxy_group_failure_count,
                   proxy_group_blacklist, container_proxy_rules, now>>

\* the clash container is restarted; then the rule is stored in Redis and the
\* group returned. A failed restart is raised before the rule is stored.
RestartAndRecord(x, ok) ==
    /\ thr[x].pc = "restart"
    /\ container_proxy_rules' = IF ok THEN HSet(container_proxy_rules, thr[x].ip, thr[x].rule)
                                ELSE container_proxy_rules
    /\ thr' = [thr EXCEPT ![x] = Finish(thr[x], "assign", IF ok THEN "ok" ELSE "error")]
    /\ UNCHANGED <<proxy_groups_list, proxy_group_rr_index, proxy_group_failure_count,
                   proxy_group_blacklist, config, now>>

\* release_proxy_from_container(container_ip) is called
CallRelease(x, container_ip) ==
    /\ thr[x].pc = "idle"
    /\ thr' = [thr EXCEPT ![x] = [IdleThread EXCEPT !.pc = "hget", !.op = "release",
                                                    !.ip = container_ip]]
    /\ UNCHANGED <<proxy_groups_list, proxy_group_rr_index, proxy_group_failure_count,
                   proxy_group_blacklist, container_proxy_rules, config, now>>

\* the group named by a stored rule
AssignedGroup(rule) == rule[3]

\* a forced reassignment that does not look for the rule of the container
force_reassign_container_Unchecked(x, container_ip) ==
    /\ thr[x].pc = "idle"
    /\ thr' = [thr EXCEPT ![x] = [IdleThread EXCEPT !.pc = "hget", !.op = "force",
                                                    !.ip = container_ip]]
    /\ UNCHANGED <<proxy_groups_list, proxy_group_rr_index, proxy_group_failure_count,
                   proxy_group_blacklist, container_proxy_rules, config, now>>

\* force_reassign_container(container_ip) is called: without a rule of the
\* container in Redis it returns success False; with one it keeps the group of
\* the rule (rule_parts[2]) as old_group and calls release, then assign
force_reassign_container(x, container_ip) ==
    /\ thr[x].pc = "idle"
    /\ thr' = [thr EXCEPT ![x] =
                 IF container_ip \in DOMAIN container_proxy_rules
                 THEN [IdleThread EXCEPT !.pc = "hget", !.op = "force", !.ip = container_ip,
                                         !.old_group = AssignedGroup(container_proxy_rules[container_ip])]
                 ELSE [IdleThread EXCEPT !.op = "force", !.ip = container_ip, !.res = "no_rule"]]
    /\ UNCHANGED <<proxy_groups_list, proxy_group_rr_index, proxy_group_failure_count,
                   proxy_group_blacklist, container_proxy_rules, config, now>>

\* rule_to_remove is read from Redis; without one release returns
ReleaseLookup(x) ==
    /\ thr[x].pc = "hget"
    /\ thr' = [thr EXCEPT ![x] =
                 IF thr[x].ip \in DOMAIN container_proxy_rules
                 THEN [thr[x] EXCEPT !.pc = "r_read", !.rule = container_proxy_rules[thr[x].ip]]
                 ELSE Finish(thr[x], "release", "absent")]
    /\ UNCHANGED <<proxy_groups_list, proxy_group_rr_index, proxy_group_failure_count,
                   proxy_group_blacklist, container_proxy_rules, config, now>>

\* config.yml is read and the rule taken out of its rules; without the file
\* the Redis field is deleted at once
ReleaseRead(x) ==
    /\ thr[x].pc = "r_read"
    /\ IF ~config.exists
       THEN /\ container_proxy_rules' = HDel(container_proxy_rules, thr[x].ip)
            /\ thr' = [thr EXCEPT ![x] = Finish(thr[x], "release", "ok")]
       ELSE /\ UNCHANGED container_proxy_rules
            /\ thr' = [thr EXCEPT ![x] =
                         IF thr[x].rule \in Range(config.rules)
                         THEN [thr[x] EXCEPT !.pc = "r_write",
                                             !.rules = RemoveFirst(config.rules, thr[x].rule)]
                         ELSE [thr[x] EXCEPT !.pc = "hdel"]]
    /\ UNCHANGED <<proxy_groups_list, proxy_group_rr_index, proxy_group_failure_count,
                   proxy_group_blacklist, config, now>>

\* a release whose failed write is raised to the caller
ReleaseWrite_Raises(x, ok) ==
    /\ thr[x].pc = "r_write"
    /\ config' = IF ok THEN [config EXCEPT !.rules = thr[x].rules] ELSE config
    /\ thr' = [thr EXCEPT ![x] = IF ok THEN [thr[x] EXCEPT !.pc = "hdel", !.wrote = TRUE]
                                 ELSE [Finish(thr[x], "release", "error") EXCEPT !.wrote = FALSE]]
    /\ UNCHANGED <<proxy_groups_list, proxy_group_rr_index, proxy_group_failure_count,
                   proxy_group_blacklist, container_proxy_rules, now>>

\* config.yml is written and clash restarted; a failure is logged, not raised
ReleaseWrite(x, ok) ==
    /\ thr[x].pc = "r_write"
    /\ config' = IF ok THEN [config EXCEPT !.rules = thr[x].rules] ELSE config
    /\ thr' = [thr EXCEPT ![x].pc = "hdel", ![x].wrote = ok]
    /\ UNCHANGED <<proxy_groups_list, proxy_group_rr_index, proxy_group_failure_count,
                   proxy_group_blacklist, container_proxy_rules, now>>

\* the Redis field of the container is deleted and release returns
ReleaseDelete(x) ==
    /\ thr[x].pc = "hdel"
    /\ container_proxy_rules' = HDel(container_proxy_rules, thr[x].ip)
    /\ thr' = [thr EXCEPT ![x] = Finish(thr[x], "release", "ok")]
    /\ UNCHANGED <<proxy_groups_list, proxy_group_rr_index, proxy_group_failure_count,
                   proxy_group_blacklist, config, now>>

\* config.yml is there but yaml.safe_load raises, or yields no mapping: the
\* outer handler logs the error and deletes the Redis field
ReleaseReadFails(x) ==
    /\ thr[x].pc = "r_read"
    /\ config.exists
    /\ container_proxy_rules' = HDel(container_proxy_rules, thr[x].ip)
    /\ thr' = [thr EXCEPT ![x] = [Finish(thr[x], "release", "ok") EXCEPT !.wrote = FALSE]]
    /\ UNCHANGED <<proxy_groups_list, proxy_group_rr_index, proxy_group_failure_count,
                   proxy_group_blacklist, config, now>>

\* config.yml is written but the restart of clash raises: the error is logged
ReleaseRestartFails(x) ==
    /\ thr[x].pc = "r_write"
    /\ config' = [config EXCEPT !.rules = thr[x].rules]
    /\ thr' = [thr EXCEPT ![x].pc = "hdel", ![x].wrote = FALSE]
    /\ UNCHANGED <<proxy_groups_list, proxy_group_rr_index, proxy_group_failure_count,
                   proxy_group_blacklist, container_proxy_rules, now>>

\* the orders in which a hash of the fields S can be iterated
Orders(S) ==
    {o \in [1..Cardinality(S) -> S] : \A i, j \in 1..Cardinality(S) : o[i] = o[j] => i = j}

\* reassign_unhealthy_containers(): the rules and the blacklist are read; with
\* an empty blacklist the tick is over
reassign_unhealthy_containers(x) ==
    /\ thr[x].pc = "idle"
    /\ thr[x].ticks < MaxTicks
    /\ \E order \in Orders(DOMAIN container_proxy_rules) :
         LET blacklisted_groups == DOMAIN proxy_group_blacklist
             t == [IdleThread EXCEPT !.op = "tick", !.ticks = thr[x].ticks + 1,
                      !.snap = container_proxy_rules, !.bl = blacklisted_groups,
                      !.due = {c \in DOMAIN container_proxy_rules :
                                  AssignedGroup(container_proxy_rules[c]) \in blacklisted_groups}]
         IN thr' = [thr EXCEPT ![x] =
                      IF blacklisted_groups = {} THEN [t EXCEPT !.res = "ok"]
                      ELSE [t EXCEPT !.pc = "t_loop", !.todo = order]]
    /\ UNCHANGED <<proxy_groups_list, proxy_group_rr_index, proxy_group_failure_count,
                   proxy_group_blacklist, container_proxy_rules, config, now>>

\* one round of the loop over container_rules.items()
ReassignNext(x) ==
    /\ thr[x].pc = "t_loop"
    /\ thr' = [thr EXCEPT ![x] =
                 IF thr[x].todo = <<>>
                 THEN [thr[x] EXCEPT !.pc = "idle", !.res = "ok", !.snap = EmptyHash, !.bl = {}]
                 ELSE LET container_ip == Head(thr[x].todo)
                          rule == thr[x].snap[container_ip]
                      IN IF Len(rule) >= 3 /\ AssignedGroup(rule) \in thr[x].bl
                         THEN [thr[x] EXCEPT !.pc = "hget", !.ip = container_ip]
                         ELSE [thr[x] EXCEPT !.todo = Tail(thr[x].todo)]]
    /\ UNCHANGED <<proxy_groups_list, proxy_group_rr_index, proxy_group_failure_count,
                   proxy_group_blacklist, container_proxy_rules, config, now>>

\* assign_proxy_to_container(container_ip) from call to return, with config.yml
\* in place and the write and the restart succeeding
assign_proxy_to_container(x, container_ip) ==
    /\ thr[x].pc = "idle"
    /\ config.exists
    /\ proxy_groups_list # <<>>
    /\ LET current_blacklist == SweepExpired(proxy_group_blacklist, now)
           healthy_groups == HealthyGroups(proxy_groups_list, DOMAIN current_blacklist)
           current_index == proxy_group_rr_index + 1
           assigned_group == IF healthy_groups # <<>>
                             THEN RoundRobin(healthy_groups, current_index)
                             ELSE BestGroup(proxy_groups_list, proxy_group_failure_count)
           new_rule == Rule(container_ip, assigned_group)
       IN /\ proxy_group_blacklist' = current_blacklist
          /\ proxy_group_rr_index' = IF healthy_groups # <<>> THEN current_index
                                     ELSE proxy_group_rr_index
          /\ config' = [config EXCEPT !.rules = <<new_rule>> \o config.rules]
          /\ container_proxy_rules' = HSet(container_proxy_rules, container_ip, new_rule)
          /\ thr' = [thr EXCEPT ![x] = [IdleThread EXCEPT !.op = "assign", !.ip = container_ip,
                                                          !.group = assigned_group, !.res = "ok"]]
    /\ UNCHANGED <<proxy_groups_list, proxy_group_failure_count, now>>

\* recover_container_mappings_from_config, the test of one rule: an
\* SRC-IP-CIDR rule of three parts whose address ends with /32
IsContainerRule(rule) ==
    /\ rule[1] = "SRC-IP-CIDR"
    /\ Len(rule) = 3
    /\ rule[2][2] = "/32"

\* recover_container_mappings_from_config, the loop over the rules of the
\* file from the top: each container rule is stored under its address
RECURSIVE RecoverFrom(_, _, _)
RecoverFrom(kv, rules, i) ==
    IF i > Len(rules) THEN kv
    ELSE IF IsContainerRule(rules[i])
         THEN RecoverFrom(HSet(kv, rules[i][2][1], rules[i]), rules, i + 1)
         ELSE RecoverFrom(kv, rules, i + 1)

\* merge_and_update_clash_config, step 4: a rule of three or more parts, or
\* of two parts whose first is GEOIP, MATCH or FINAL, is tested by its last
\* part (rule_target)
HasTarget(rule) ==
    IF Len(rule) >= 3 THEN TRUE
    ELSE Len(rule) = 2 /\ rule[1] \in {"GEOIP", "MATCH", "FINAL"}

\* merge_and_update_clash_config, step 4: the rules whose target is a
\* generated group or DIRECT, and the rules of any other format, in their order
ValidRules(existing_rules, valid_proxy_groups) ==
    SelectSeq(existing_rules,
              LAMBDA rule : HasTarget(rule) => rule[Len(rule)] \in valid_proxy_groups)

\* 'GEOIP,CN,DIRECT' in str(rule): the three parts follow each other in the rule
HasGeoip(rule) ==
    \E i \in 1..Len(rule) : i + 2 <= Len(rule) /\ SubSeq(rule, i, i + 2) = DefaultRules[1]

\* merge_and_update_clash_config, step 4: the two closing rules are added
\* when missing
WithClosingRules(valid_rules) ==
    IF valid_rules = <<>> THEN DefaultRules
    ELSE LET has_geoip == \E i \in DOMAIN valid_rules : HasGeoip(valid_rules[i])
             has_match == \E i \in DOMAIN valid_rules :
                             Len(valid_rules[i]) >= 2 /\ valid_rules[i][1] = "MATCH"
         IN valid_rules \o (IF has_geoip THEN <<>> ELSE <<DefaultRules[1]>>)
                        \o (IF has_match THEN <<>> ELSE <<DefaultRules[2]>>)

\* merge_and_update_clash_config() with the groups the provider files give:
\* the groups replace those of the file, rules of other groups are dropped,
\* the list in Redis is replaced when a group was generated, the file is written
merge_and_update_clash_config(url_test_groups, readable, ok) ==
    LET existing_rules == IF ~config.exists THEN DefaultRules
                          ELSE IF readable THEN config.rules ELSE <<>>
        current_config == IF ~config.exists THEN DefaultKeys
                          ELSE IF readable THEN config.other ELSE EmptyHash
        valid_rules == WithClosingRules(
                          ValidRules(existing_rules, Range(url_test_groups) \cup {"DIRECT"}))
    IN /\ proxy_groups_list' = IF url_test_groups # <<>> THEN url_test_groups
                               ELSE proxy_groups_list
       /\ config' = IF ok THEN [exists |-> TRUE, groups |-> url_test_groups, rules |-> valid_rules,
                                 other |-> [key \in DOMAIN current_config |->
                                              YamlLoad(FormatValue(current_config[key]))]]
                    ELSE config
       /\ UNCHANGED <<proxy_group_rr_index, proxy_group_failure_count, proxy_group_blacklist,
                      container_proxy_rules, thr, now>>

\* the backend process starts again; Redis has kept its keys, or lost the
\* container rules, or lost every key
Restart(lost) ==
    /\ boot.pc = "up"
    /\ boot.n < MaxBoots
    /\ \A x \in Threads : thr[x].pc = "idle"
    /\ container_proxy_rules' = IF lost = "none" THEN container_proxy_rules ELSE EmptyHash
    /\ proxy_groups_list' = IF lost = "all" THEN <<>> ELSE proxy_groups_list
    /\ proxy_group_rr_index' = IF lost = "all" THEN 0 ELSE proxy_group_rr_index
    /\ proxy_group_failure_count' = IF lost = "all" THEN EmptyHash ELSE proxy_group_failure_count
    /\ proxy_group_blacklist' = IF lost = "all" THEN EmptyHash ELSE proxy_group_blacklist
    /\ boot' = [pc |-> "recover", lost |-> lost, kv |-> container_proxy_rules,
                list |-> proxy_groups_list', config |-> config, read |-> FALSE,
                recovered |-> FALSE, checked |-> FALSE, merged |-> FALSE,
                health_started |-> FALSE, reassign_started |-> FALSE, n |-> boot.n + 1,
                health_threads |-> 0, reassign_threads |-> 0]
    /\ UNCHANGED <<config, thr, now>>
    /\ UNCHANGED <<trip, health, series>> /\ UNCHANGED tvars

\* initialize_proxy_manager, step 1: recover_container_mappings_from_config()
\* returns, having stored the rules of the file or, the file missing or not
\* readable, nothing
recover_container_mappings_from_config(ok) ==
    /\ boot.pc = "recover"
    /\ container_proxy_rules' = IF config.exists /\ ok
                                THEN RecoverFrom(container_proxy_rules, config.rules, 1)
                                ELSE container_proxy_rules
    /\ boot' = [boot EXCEPT !.pc = "check", !.recovered = TRUE, !.read = config.exists /\ ok]
    /\ UNCHANGED <<proxy_groups_list, proxy_group_rr_index, proxy_group_failure_count,
                   proxy_group_blacklist, config, thr, now>>
    /\ UNCHANGED <<trip, health, series>> /\ UNCHANGED tvars

\* the check of the list asking for a merge whatever it read
CheckGroups_Always(ok) ==
    /\ boot.pc = "check"
    /\ boot' = [boot EXCEPT !.pc = IF ok THEN "merge" ELSE "start_health",
                            !.checked = ~ok]
    /\ UNCHANGED <<proxy_groups_list, proxy_group_rr_index, proxy_group_failure_count,
                   proxy_group_blacklist, container_proxy_rules, config, thr, now>>
    /\ UNCHANGED <<trip, health, series>> /\ UNCHANGED tvars

\* initialize_proxy_manager, step 2: the list of groups is read; an empty
\* list asks for a merge, an error is logged
CheckGroups(ok) ==
    /\ boot.pc = "check"
    /\ boot' = [boot EXCEPT !.pc = IF ok /\ proxy_groups_list = <<>> THEN "merge"
                                  ELSE "start_health",
                            !.checked = ~(ok /\ proxy_groups_list = <<>>)]
    /\ UNCHANGED <<proxy_groups_list, proxy_group_rr_index, proxy_group_failure_count,
                   proxy_group_blacklist, container_proxy_rules, config, thr, now>>
    /\ UNCHANGED <<trip, health, series>> /\ UNCHANGED tvars

\* initialize_proxy_manager, step 2: the merge called for an empty list
\* returns or raises, which is logged
MergeAtStartup(url_test_groups, readable, ok) ==
    /\ boot.pc = "merge"
    /\ merge_and_update_clash_config(url_test_groups, readable, ok)
    /\ boot' = [boot EXCEPT !.pc = "start_health", !.checked = TRUE, !.merged = TRUE]
    /\ UNCHANGED <<trip, health, series>> /\ UNCHANGED tvars

\* initialize_proxy_health_services: start_health_checker()
start_health_checker ==
    /\ boot.pc = "start_health"
    /\ boot' = [boot EXCEPT !.pc = "start_reassign", !.health_started = TRUE,
                            !.health_threads = @ + 1]
    /\ health' = IdleHealth
    /\ UNCHANGED <<proxy_groups_list, proxy_group_rr_index, proxy_group_failure_count,
                   proxy_group_blacklist, container_proxy_rules, config, thr, now>>
    /\ UNCHANGED <<trip, series>> /\ UNCHANGED tvars

\* initialize_proxy_health_services: start_container_reassigner()
start_container_reassigner ==
    /\ boot.pc = "start_reassign"
    /\ boot' = [boot EXCEPT !.pc = "up", !.reassign_started = TRUE,
                            !.reassign_threads = @ + 1]
    /\ UNCHANGED <<proxy_groups_list, proxy_group_rr_index, proxy_group_failure_count,
                   proxy_group_blacklist, container_proxy_rules, config, thr, now>>
    /\ UNCHANGED <<trip, health, series>> /\ UNCHANGED tvars

\* ------------------------------------------------------------ specifications
\* no assign followed by a release is on record
NoTrip == [stage |-> "none", ip |-> NULL, kv |-> EmptyHash, rules |-> <<>>, wrote |-> TRUE]

\* no series of assigns on record
NoSeries == [c |-> 0, H |-> <<>>, out |-> <<>>, calls |-> <<>>, overlap |-> FALSE]

\* no request of the container service in flight
IdleBatch == [pc |-> "idle", project_id |-> 0, next_port |-> 0, latest |-> 0, i |-> 0, count |-> 0, row |-> 0,
              done |-> {}, res |-> "none"]

\* start_container_batch ended with HTTP 500
Internal == [IdleBatch EXCEPT !.res = "internal"]

\* start_container_batch returned the rows it created
Created == [IdleBatch EXCEPT !.res = "ok"]

\* an empty table containers, its id sequence unused
ContainerInit ==
    /\ containers = {}
    /\ container_seq = 0
    /\ batch = [s \in Sessions |-> IdleBatch]
    /\ inserted_ports = <<>>
    /\ alert_store = EmptyHash
    /\ reported = [w \in WorkerIds |-> "none"]
    /\ alerts_out = [calls |-> 0, alerts |-> <<>>]

\* no task table rows, no request in flight
TaskInit ==
    /\ tasks = <<>>
    /\ results = <<>>
    /\ sess = [s \in Sessions |-> IdleSession]
    /\ now = 0
    /\ last = NoRequest
    /\ handed = {}
    /\ held = [w \in Workers |-> 0]

\* the merged config.yml and its groups in Redis, no container routed
ProxyInit ==
    /\ ContainerInit
    /\ proxy_groups_list = Groups
    /\ proxy_group_rr_index = 0
    /\ proxy_group_failure_count = EmptyHash
    /\ proxy_group_blacklist = EmptyHash
    /\ container_proxy_rules = EmptyHash
    /\ config = [exists |-> TRUE, groups |-> Groups, rules |-> DefaultRules, other |-> DefaultKeys]
    /\ thr = [x \in Threads |-> IdleThread]
    /\ trip = NoTrip
    /\ health = IdleHealth
    /\ boot = IdleBoot
    /\ series = NoSeries

Init == TaskInit /\ ProxyInit

Tick ==
    /\ now < MaxTime * TimeStep
    /\ now' = now + TimeStep
    /\ UNCHANGED <<tasks, results, sess, last, handed, held>>

\* what get_next_task returns when no other statement runs beside it
ClaimResult(table, w) ==
    LET existing == ExistingTask(table, w)
    IN IF existing # 0 THEN existing ELSE LockedTask(existing, PendingIn(table), table, {})

\* get_next_task from db.execute to its return with no other statement in between
Claim(w) ==
    /\ \A s \in Sessions : sess[s].pc = "idle"
    /\ LET target == LockedTask(ExistingTask(tasks, w), PendingIn(tasks), tasks, {})
       IN tasks' = IF target = 0 THEN tasks
                   ELSE [tasks EXCEPT ![target] = ClaimedRow(@, w, now)]
    /\ UNCHANGED <<results, sess, now>>

\* the record of the request that returned: its name, arguments and result
Returned(op, w, t, ret) ==
    /\ last' = [op |-> op, w |-> w, t |-> t, ret |-> ret]
    /\ UNCHANGED <<handed, held>>
    /\ UNCHANGED pvars
Unrecorded == UNCHANGED <<last, handed, held>> /\ UNCHANGED pvars

\* the task engine, one request at a time; submissions carry no rows
Next ==
    \/ \E data \in UserTaskInputs :
         AddTasks(data) /\ Returned(IF AddAccepted(data) THEN "add" ELSE "add_rejected", NULL, 0, 0)
    \/ \E w \in Workers :
         Claim(w) /\ Returned("claim", w, 0, ClaimResult(tasks, w))
    \/ \E t \in TaskArgs, failAt \in FailPoints :
         SubmitResult(t, <<>>, failAt)
           /\ Returned(IF failAt = "none" THEN "submit" ELSE "submit_error", NULL, t, 0)
    \/ \E t \in TaskArgs, dbOk \in BOOLEAN :
         ReportFailure(t, dbOk) /\ Returned(IF dbOk THEN "fail" ELSE "fail_error", NULL, t, 0)
    \/ Tick /\ UNCHANGED pvars

Spec == Init /\ [][Next]_vars

\* a table filled by add_tasks, before any worker asks for a task
InitConc ==
    /\ tasks \in {[i \in 1..n |-> DefaultRow] : n \in 0..MaxTasks}
    /\ results = <<>>
    /\ sess = [s \in Sessions |-> IdleSession]
    /\ now = 0
    /\ last = NoRequest
    /\ handed = {}
    /\ held = [w \in Workers |-> 0]
    /\ ProxyInit

\* the task engine with get_next_task requests running concurrently
NextConc ==
    \/ \E s \in Sessions, w \in Workers : ClaimStart(s, w) /\ Unrecorded
    \/ \E s \in Sessions : ClaimExec(s) /\ Unrecorded
    \/ \E s \in Sessions : ClaimCommit(s) /\ Unrecorded
    \/ \E s \in Sessions : ClaimError(s) /\ Unrecorded
    \/ \E t \in TaskArgs : SubmitResult(t, <<>>, "none") /\ Unrecorded
    \/ \E t \in TaskArgs : ReportFailure(t, TRUE) /\ Unrecorded

SpecConc == InitConc /\ [][NextConc]_vars

\* submissions with result rows and database failures
NextSubmit ==
    \/ \E data \in UserTaskInputs : AddTasks(data) /\ Returned("add", NULL, 0, 0)
    \/ \E w \in Workers : Claim(w) /\ Returned("claim", w, 0, ClaimResult(tasks, w))
    \/ \E t \in TaskArgs, data \in DataInputs, failAt \in FailPoints :
         SubmitResult(t, data, failAt)
           /\ Returned(IF failAt = "none" THEN "submit" ELSE "submit_error", NULL, t, Len(data))

SpecSubmit == Init /\ [][NextSubmit]_vars

\* concurrent get_next_task requests against a table of pending rows
NextClaim ==
    \/ \E s \in Sessions, w \in Workers : ClaimStart(s, w) /\ Unrecorded
    \/ \E s \in Sessions : ClaimExec(s) /\ Unrecorded
    \/ \E s \in Sessions :
         /\ ClaimCommit(s)
         /\ handed' = IF sess[s].ret = 0 THEN handed ELSE handed \cup {<<sess[s].w, sess[s].ret>>}
         /\ UNCHANGED <<last, held>>
         /\ UNCHANGED pvars
    \/ \E s \in Sessions : ClaimError(s) /\ Unrecorded

SpecClaim == InitConc /\ [][NextClaim]_vars

\* a worker repeating get_next_task: held[w] is the row a call of w returned as
\* the one w already owns, until that row is submitted or reported failed
Release(t) == held' = [w \in Workers |-> IF held[w] = t THEN 0 ELSE held[w]]

NextRepeat ==
    \/ \E s \in Sessions, w \in Workers : ClaimStart(s, w) /\ Unrecorded
    \/ \E s \in Sessions : ClaimExec(s) /\ Unrecorded
    \/ \E s \in Sessions :
         /\ ClaimCommit(s)
         /\ held' = IF /\ sess[s].existing # 0
                       /\ held[sess[s].w] = 0
                       /\ tasks[sess[s].existing].status = "in_progress"
                       /\ tasks[sess[s].existing].worker_id = sess[s].w
                    THEN [held EXCEPT ![sess[s].w] = sess[s].existing]
                    ELSE held
         /\ UNCHANGED <<last, handed>>
         /\ UNCHANGED pvars
    \/ \E t \in TaskArgs : SubmitResult(t, <<>>, "none") /\ Release(t) /\ UNCHANGED <<last, handed>> /\ UNCHANGED pvars
    \/ \E t \in TaskArgs : ReportFailure(t, TRUE) /\ Release(t) /\ UNCHANGED <<last, handed>> /\ UNCHANGED pvars

SpecRepeat == InitConc /\ [][NextRepeat]_vars

\* bulk add with any column names, reserved ones included
NextAdd ==
    \/ \E data \in AnyTaskInputs :
         AddTasks(data) /\ Returned(IF AddAccepted(data) THEN "add" ELSE "add_rejected", NULL, 0, 0)
    \/ \E w \in Workers : Claim(w) /\ Returned("claim", w, 0, ClaimResult(tasks, w))
    \/ \E t \in TaskArgs : SubmitResult(t, <<>>, "none") /\ Returned("submit", NULL, t, 0)
    \/ \E t \in TaskArgs : ReportFailure(t, TRUE) /\ Returned("fail", NULL, t, 0)

SpecAdd == Init /\ [][NextAdd]_vars

\* the column lists given to initialize_tasks_table and
\* initialize_results_table: user columns, fixed ones among them, a bad name
TaskColumnLists == {{N_url}, {N_url, N_id}, {N_url, N_status}, {N_retry_count}, {N_1x}}
ResultColumnLists == {{N_url}, {}, {N_url, N_task_id}, {N_note}, {N_id}, {N_1x}}

\* tables initialised and filled with any column names, reserved ones included
NextColumns ==
    \/ \E data \in AnyTaskInputs :
         AddTasks(data) /\ Returned(IF AddAccepted(data) THEN "add" ELSE "add_rejected", NULL, 0, 0)
    \/ \E w \in Workers : Claim(w) /\ Returned("claim", w, 0, ClaimResult(tasks, w))
    \/ \E t \in TaskArgs, data \in DataInputs :
         SubmitResult(t, data, "none") /\ Returned("submit", NULL, t, Len(data))
    \/ \E columns \in TaskColumnLists : initialize_tasks_table(columns) /\ UNCHANGED pvars
    \/ \E columns \in ResultColumnLists : initialize_results_table(columns) /\ UNCHANGED pvars

SpecColumns == Init /\ [][NextColumns]_vars

\* ------------------------------------------------- proxy manager specifications
\* the record of an assign of a container without a rule and of the release
\* that follows it at once: the rules in Redis and in config.yml before it

TripNext(x) ==
    LET a == thr[x]
        b == thr'[x]
    IN IF a.pc = "idle" /\ b.pc # "idle"
       THEN IF b.op = "assign"
            THEN IF b.ip \notin DOMAIN container_proxy_rules
                 THEN [stage |-> "assigning", ip |-> b.ip, kv |-> container_proxy_rules,
                       rules |-> config.rules, wrote |-> TRUE]
                 ELSE NoTrip
            ELSE IF b.op = "release" /\ trip.stage = "assigned" /\ trip.ip = b.ip
                 THEN [trip EXCEPT !.stage = "releasing"]
                 ELSE NoTrip
       ELSE IF a.pc # "idle" /\ b.pc = "idle"
            THEN IF trip.stage = "assigning" /\ b.res = "ok"
                 THEN [trip EXCEPT !.stage = "assigned"]
                 ELSE IF trip.stage = "releasing"
                      THEN [trip EXCEPT !.stage = "released", !.wrote = b.wrote]
                      ELSE NoTrip
            ELSE trip

Traced(x) == trip' = TripNext(x) /\ UNCHANGED <<health, boot, series>> /\ UNCHANGED tvars
Untraced == UNCHANGED <<trip, health, boot, series>> /\ UNCHANGED tvars

\* no other thread is inside a call for container_ip
Free(x, container_ip) == \A y \in Threads \ {x} : thr[y].pc = "idle" \/ thr[y].ip # container_ip

\* a request handler and the reassignment thread, each inside an assign or a
\* release of a container of its own, every file write and restart succeeding
NextRace ==
    \/ \E x \in Threads, ip \in IPs :
         /\ Free(x, ip) /\ ip \notin DOMAIN container_proxy_rules
         /\ CallAssign(x, ip) /\ Untraced
    \/ \E x \in Threads, ip \in IPs : Free(x, ip) /\ CallRelease(x, ip) /\ Untraced
    \/ \E x \in Threads : ReadBlacklist(x) /\ Untraced
    \/ \E x \in Threads : get_healthy_proxy_groups(x) /\ Untraced
    \/ \E x \in Threads : ChooseGroup(x) /\ Untraced
    \/ \E x \in Threads : ReadConfig(x) /\ Untraced
    \/ \E x \in Threads : WriteConfig(x, TRUE) /\ Untraced
    \/ \E x \in Threads : RestartAndRecord(x, TRUE) /\ Untraced
    \/ \E x \in Threads : ReleaseLookup(x) /\ Untraced
    \/ \E x \in Threads : ReleaseRead(x) /\ Untraced
    \/ \E x \in Threads : ReleaseWrite(x, TRUE) /\ Untraced
    \/ \E x \in Threads : ReleaseDelete(x) /\ Untraced

SpecRace == Init /\ [][NextRace]_vars

\* one request at a time, with failing file writes and restarts, beside the
\* health check
InitProxy ==
    /\ TaskInit
    /\ ContainerInit
    /\ proxy_groups_list = Groups
    /\ proxy_group_rr_index = 0
    /\ proxy_group_failure_count = EmptyHash
    /\ proxy_group_blacklist = EmptyHash
    /\ container_proxy_rules = EmptyHash
    /\ config \in {[exists |-> e, groups |-> Groups, rules |-> DefaultRules, other |-> DefaultKeys] : e \in BOOLEAN}
    /\ thr = [x \in Threads |-> IdleThread]
    /\ trip = NoTrip
    /\ health = IdleHealth
    /\ boot = IdleBoot
    /\ series = NoSeries
NextProxy ==
    \/ \E ip \in IPs : CallAssign("req1", ip) /\ Traced("req1")
    \/ \E ip \in IPs : CallRelease("req1", ip) /\ Traced("req1")
    \/ ReadBlacklist("req1") /\ Traced("req1")
    \/ get_healthy_proxy_groups("req1") /\ Traced("req1")
    \/ ChooseGroup("req1") /\ Traced("req1")
    \/ ReadConfig("req1") /\ Traced("req1")
    \/ \E ok \in BOOLEAN : WriteConfig("req1", ok) /\ Traced("req1")
    \/ \E ok \in BOOLEAN : RestartAndRecord("req1", ok) /\ Traced("req1")
    \/ ReleaseLookup("req1") /\ Traced("req1")
    \/ ReleaseRead("req1") /\ Traced("req1")
    \/ \E ok \in BOOLEAN : ReleaseWrite("req1", ok) /\ Traced("req1")
    \/ ReleaseDelete("req1") /\ Traced("req1")
    \/ \E g \in Range(proxy_groups_list), is_healthy \in BOOLEAN :
         /\ CountBelow(g, is_healthy, MaxFailures)
         /\ update_proxy_group_health(g, is_healthy) /\ Untraced

SpecProxy == InitProxy /\ [][NextProxy]_vars

\* every container holds a rule, as after two assigns
InitReassign ==
    /\ TaskInit
    /\ ContainerInit
    /\ proxy_groups_list = Groups
    /\ proxy_group_rr_index = 2
    /\ proxy_group_failure_count = EmptyHash
    /\ proxy_group_blacklist = EmptyHash
    /\ container_proxy_rules = [ip \in IPs |-> Rule(ip, IF ip = "ip1" THEN "g1" ELSE "g2")]
    /\ config = [exists |-> TRUE, groups |-> Groups,
                 rules |-> <<Rule("ip2", "g2"), Rule("ip1", "g1")>> \o DefaultRules,
                 other |-> DefaultKeys]
    /\ thr = [x \in Threads |-> IdleThread]
    /\ trip = NoTrip
    /\ health = IdleHealth
    /\ boot = IdleBoot
    /\ series = NoSeries

\* the reassignment loop beside the health check
NextReassign ==
    \/ reassign_unhealthy_containers("loop") /\ Untraced
    \/ ReassignNext("loop") /\ Untraced
    \/ ReadBlacklist("loop") /\ Untraced
    \/ get_healthy_proxy_groups("loop") /\ Untraced
    \/ ChooseGroup("loop") /\ Untraced
    \/ ReadConfig("loop") /\ Untraced
    \/ \E ok \in BOOLEAN : WriteConfig("loop", ok) /\ Untraced
    \/ \E ok \in BOOLEAN : RestartAndRecord("loop", ok) /\ Untraced
    \/ ReleaseLookup("loop") /\ Untraced
    \/ ReleaseRead("loop") /\ Untraced
    \/ \E ok \in BOOLEAN : ReleaseWrite("loop", ok) /\ Untraced
    \/ ReleaseDelete("loop") /\ Untraced
    \/ \E g \in Range(proxy_groups_list), is_healthy \in BOOLEAN :
         /\ CountBelow(g, is_healthy, MaxFailures)
         /\ update_proxy_group_health(g, is_healthy) /\ Untraced
    \/ Tick /\ UNCHANGED pvars

SpecReassign == InitReassign /\ [][NextReassign]_vars

\* a container routed through g1, config.yml there or lost since; one request
\* at a time, every step of release and assign failing where it can
InitRelease ==
    /\ TaskInit
    /\ ContainerInit
    /\ proxy_groups_list = Groups
    /\ proxy_group_rr_index = 1
    /\ proxy_group_failure_count = EmptyHash
    /\ proxy_group_blacklist = EmptyHash
    /\ container_proxy_rules = [ip \in {"ip1"} |-> Rule(ip, "g1")]
    /\ config \in {[exists |-> e, groups |-> Groups,
                    rules |-> <<Rule("ip1", "g1")>> \o DefaultRules,
                    other |-> DefaultKeys] : e \in BOOLEAN}
    /\ thr = [x \in Threads |-> IdleThread]
    /\ trip = NoTrip
    /\ health = IdleHealth
    /\ boot = IdleBoot
    /\ series = NoSeries

NextRelease ==
    \/ \E ip \in IPs : CallAssign("req1", ip) /\ Untraced
    \/ \E ip \in IPs : CallRelease("req1", ip) /\ Untraced
    \/ ReadBlacklist("req1") /\ Untraced
    \/ get_healthy_proxy_groups("req1") /\ Untraced
    \/ ChooseGroup("req1") /\ Untraced
    \/ ReadConfig("req1") /\ Untraced
    \/ \E ok \in BOOLEAN : WriteConfig("req1", ok) /\ Untraced
    \/ \E ok \in BOOLEAN : RestartAndRecord("req1", ok) /\ Untraced
    \/ ReleaseLookup("req1") /\ Untraced
    \/ ReleaseRead("req1") /\ Untraced
    \/ ReleaseReadFails("req1") /\ Untraced
    \/ \E ok \in BOOLEAN : ReleaseWrite("req1", ok) /\ Untraced
    \/ ReleaseRestartFails("req1") /\ Untraced
    \/ ReleaseDelete("req1") /\ Untraced

SpecRelease == InitRelease /\ [][NextRelease]_vars

\* assign requests, one at a time, beside the health check and the clock
NextHealth ==
    \/ \E ip \in IPs : CallAssign("req1", ip) /\ Untraced
    \/ ReadBlacklist("req1") /\ Untraced
    \/ get_healthy_proxy_groups("req1") /\ Untraced
    \/ ChooseGroup("req1") /\ Untraced
    \/ ReadConfig("req1") /\ Untraced
    \/ \E ok \in BOOLEAN : WriteConfig("req1", ok) /\ Untraced
    \/ \E ok \in BOOLEAN : RestartAndRecord("req1", ok) /\ Untraced
    \/ \E g \in Range(proxy_groups_list), is_healthy \in BOOLEAN :
         /\ CountBelow(g, is_healthy, MaxFailures)
         /\ update_proxy_group_health(g, is_healthy) /\ Untraced
    \/ Tick /\ UNCHANGED pvars

SpecHealth == Init /\ [][NextHealth]_vars

\* three groups, any of them blacklisted for the whole run, the counter at any
\* value up to MaxStart; assigns follow one another and nothing else happens
InitSeries ==
    /\ TaskInit
    /\ ContainerInit
    /\ proxy_groups_list = Groups3
    /\ proxy_group_rr_index \in 0..MaxStart
    /\ \E B \in SUBSET Range(Groups3) :
         /\ proxy_group_failure_count = [g \in B |-> MAX_FAILURE_COUNT]
         /\ proxy_group_blacklist = [g \in B |-> BLACKLIST_DURATION]
    /\ container_proxy_rules = EmptyHash
    /\ config = [exists |-> TRUE, groups |-> Groups3, rules |-> DefaultRules, other |-> DefaultKeys]
    /\ thr = [x \in Threads |-> IdleThread]
    /\ trip = NoTrip
    /\ health = IdleHealth
    /\ boot = IdleBoot
    /\ series = [c |-> proxy_group_rr_index,
                 H |-> HealthyGroups(proxy_groups_list, DOMAIN proxy_group_blacklist),
                 out |-> <<>>, calls |-> <<>>, overlap |-> FALSE]

NextSeries ==
    \E ip \in IPs :
        /\ Len(series.out) < MaxSeries
        /\ assign_proxy_to_container("req1", ip)
        /\ series' = [series EXCEPT !.out = Append(@, thr'["req1"].group)]
        /\ UNCHANGED <<trip, health, boot>> /\ UNCHANGED tvars

SpecSeries == InitSeries /\ [][NextSeries]_vars

\* what an assign of x obtained when it chose its group: the value INCR
\* returned (0 without a healthy group), the healthy list it had read, the group
Obtained(x) ==
    [x |-> x,
     index |-> IF thr[x].healthy # <<>> THEN proxy_group_rr_index' ELSE 0,
     healthy |-> thr[x].healthy,
     group |-> thr'[x].group]

\* the container each thread asks a group for
ContainerOf(x) == IF x = "req1" THEN "ip1" ELSE "ip2"

\* three groups, any of them blacklisted; a request handler and the
\* reassignment thread each make one assign, beside the health check
InitPair ==
    /\ TaskInit
    /\ ContainerInit
    /\ proxy_groups_list = Groups3
    /\ proxy_group_rr_index \in 0..1
    /\ \E B \in SUBSET Range(Groups3) :
         /\ proxy_group_failure_count = [g \in B |-> MAX_FAILURE_COUNT]
         /\ proxy_group_blacklist = [g \in B |-> BLACKLIST_DURATION]
    /\ container_proxy_rules = EmptyHash
    /\ config = [exists |-> TRUE, groups |-> Groups3, rules |-> DefaultRules, other |-> DefaultKeys]
    /\ thr = [x \in Threads |-> IdleThread]
    /\ trip = NoTrip
    /\ health = IdleHealth
    /\ boot = IdleBoot
    /\ series = NoSeries

NextPair ==
    \/ \E x \in Threads :
         /\ thr[x].op = "none"
         /\ CallAssign(x, ContainerOf(x))
         /\ series' = [series EXCEPT !.overlap = \E y \in Threads \ {x} : thr[y].pc # "idle"]
         /\ UNCHANGED <<trip, health, boot>> /\ UNCHANGED tvars
    \/ \E x \in Threads : ReadBlacklist(x) /\ Untraced
    \/ \E x \in Threads : get_healthy_proxy_groups(x) /\ Untraced
    \/ \E x \in Threads :
         /\ ChooseGroup(x)
         /\ series' = [series EXCEPT !.calls = Append(@, Obtained(x))]
         /\ UNCHANGED <<trip, health, boot>> /\ UNCHANGED tvars
    \/ \E x \in Threads : ReadConfig(x) /\ Untraced
    \/ \E x \in Threads : WriteConfig(x, TRUE) /\ Untraced
    \/ \E x \in Threads : RestartAndRecord(x, TRUE) /\ Untraced
    \/ \E g \in Range(proxy_groups_list), is_healthy \in BOOLEAN :
         /\ CountBelow(g, is_healthy, MaxFailures)
         /\ update_proxy_group_health(g, is_healthy) /\ Untraced

SpecPair == InitPair /\ [][NextPair]_vars

\* every group blacklisted after MAX_FAILURE_COUNT failed probes or more, or
\* Redis without its group list; assigns beside the health check
InitFallback ==
    /\ TaskInit
    /\ ContainerInit
    /\ \/ /\ proxy_groups_list = Groups3
          /\ proxy_group_failure_count \in [Range(Groups3) -> MAX_FAILURE_COUNT..MaxCount]
          /\ proxy_group_blacklist = [g \in Range(Groups3) |-> BLACKLIST_DURATION]
       \/ /\ proxy_groups_list = <<>>
          /\ proxy_group_failure_count = EmptyHash
          /\ proxy_group_blacklist = EmptyHash
    /\ proxy_group_rr_index = 0
    /\ container_proxy_rules = EmptyHash
    /\ config = [exists |-> TRUE, groups |-> Groups3, rules |-> DefaultRules, other |-> DefaultKeys]
    /\ thr = [x \in Threads |-> IdleThread]
    /\ trip = NoTrip
    /\ health = IdleHealth
    /\ boot = IdleBoot
    /\ series = NoSeries

NextFallback ==
    \/ \E ip \in IPs : CallAssign("req1", ip) /\ Untraced
    \/ ReadBlacklist("req1") /\ Untraced
    \/ get_healthy_proxy_groups("req1") /\ Untraced
    \/ ChooseGroup("req1") /\ Untraced
    \/ ReadConfig("req1") /\ Untraced
    \/ WriteConfig("req1", TRUE) /\ Untraced
    \/ RestartAndRecord("req1", TRUE) /\ Untraced
    \/ \E g \in Range(proxy_groups_list), is_healthy \in BOOLEAN :
         /\ CountBelow(g, is_healthy, MaxFailures)
         /\ update_proxy_group_health(g, is_healthy) /\ Untraced

SpecFallback == InitFallback /\ [][NextFallback]_vars

\* health_check_worker: an iteration starts by reading the list of groups
HealthStart ==
    /\ health.pc = "sleep"
    /\ health.n < MaxIterations
    /\ health' = [health EXCEPT !.pc = "probe", !.todo = Range(proxy_groups_list),
                                !.started = now]
    /\ UNCHANGED <<proxy_groups_list, proxy_group_rr_index, proxy_group_failure_count,
                   proxy_group_blacklist, container_proxy_rules, config, thr, now>>
    /\ UNCHANGED <<trip, boot, series>> /\ UNCHANGED tvars

\* health_check_worker: the probe of one group completes, in any order, and its
\* result is recorded
HealthResult(group_name, is_healthy) ==
    /\ health.pc = "probe"
    /\ group_name \in health.todo
    /\ CountBelow(group_name, is_healthy, MaxCount)
    /\ update_proxy_group_health(group_name, is_healthy)
    /\ health' = [health EXCEPT !.todo = @ \ {group_name}]
    /\ UNCHANGED <<trip, boot, series>> /\ UNCHANGED tvars

\* health_check_worker: every result is recorded, the thread sleeps
HealthEnd ==
    /\ health.pc = "probe"
    /\ health.todo = {}
    /\ health' = [health EXCEPT !.pc = "sleep", !.n = @ + 1]
    /\ UNCHANGED <<proxy_groups_list, proxy_group_rr_index, proxy_group_failure_count,
                   proxy_group_blacklist, container_proxy_rules, config, thr, now>>
    /\ UNCHANGED <<trip, boot, series>> /\ UNCHANGED tvars

\* the clock between two iterations: a probe gives up after HEALTH_CHECK_TIMEOUT,
\* so an iteration is over well within one step of the clock
TickAsleep ==
    /\ health.pc = "sleep"
    /\ Tick
    /\ UNCHANGED pvars

\* the health check thread beside assign requests, one at a time
NextIteration ==
    \/ HealthStart
    \/ \E g \in Range(proxy_groups_list), is_healthy \in BOOLEAN : HealthResult(g, is_healthy)
    \/ HealthEnd
    \/ TickAsleep
    \/ CallAssign("req1", "ip1") /\ Untraced
    \/ ReadBlacklist("req1") /\ Untraced
    \/ get_healthy_proxy_groups("req1") /\ Untraced
    \/ ChooseGroup("req1") /\ Untraced
    \/ ReadConfig("req1") /\ Untraced
    \/ \E ok \in BOOLEAN : WriteConfig("req1", ok) /\ Untraced
    \/ \E ok \in BOOLEAN : RestartAndRecord("req1", ok) /\ Untraced

SpecIteration == Init /\ [][NextIteration]_vars

\* the groups the provider files can give to a merge
Provided == {<<>>, Groups, <<"g2">>}

\* requests are served once startup is over
Up == boot.pc = "up"

\* assign and release requests, one at a time, every step failing where it
\* can; the backend starts again, Redis having lost nothing, the container
\* rules or everything
NextStartup ==
    \/ \E ip \in IPs : Up /\ CallAssign("req1", ip) /\ Untraced
    \/ \E ip \in IPs : Up /\ CallRelease("req1", ip) /\ Untraced
    \/ ReadBlacklist("req1") /\ Untraced
    \/ get_healthy_proxy_groups("req1") /\ Untraced
    \/ ChooseGroup("req1") /\ Untraced
    \/ ReadConfig("req1") /\ Untraced
    \/ \E ok \in BOOLEAN : WriteConfig("req1", ok) /\ Untraced
    \/ \E ok \in BOOLEAN : RestartAndRecord("req1", ok) /\ Untraced
    \/ ReleaseLookup("req1") /\ Untraced
    \/ ReleaseRead("req1") /\ Untraced
    \/ ReleaseReadFails("req1") /\ Untraced
    \/ \E ok \in BOOLEAN : ReleaseWrite("req1", ok) /\ Untraced
    \/ ReleaseRestartFails("req1") /\ Untraced
    \/ ReleaseDelete("req1") /\ Untraced
    \/ \E lost \in {"none", "rules", "all"} : Restart(lost)
    \/ \E ok \in BOOLEAN : recover_container_mappings_from_config(ok)
    \/ \E ok \in BOOLEAN : CheckGroups(ok)
    \/ \E g \in Provided, readable, ok \in BOOLEAN : MergeAtStartup(g, readable, ok)
    \/ start_health_checker
    \/ start_container_reassigner

SpecStartup == Init /\ [][NextStartup]_vars

\* -------------------------------------------------------- container service
\* host_port of a row: settings.CONTAINER_HOST + ":" + str(port), kept as its
\* parts
HostPort(port) == <<CONTAINER_HOST, port>>

\* int(host_port.split(':')[-1])
PortOf(host_port) == host_port[Len(host_port)]

\* the projects whose containers are started and stopped
Projects == {1, 2}

\* db.query(Container).order_by(Container.id.desc()).first()
LatestContainer(table) == CHOOSE r \in table : \A q \in table : q.id <= r.id

\* a next port that is the port of the latest row again
NextPort_Same(table) ==
    IF table = {} THEN VNC_PORT_START ELSE PortOf(LatestContainer(table).host_port)

\* _get_next_available_port(db)
GetNextAvailablePort(table) ==
    IF table = {} THEN VNC_PORT_START ELSE PortOf(LatestContainer(table).host_port) + 1

\* an insert that no unique column of the table refuses
Refused_Never(table, container_id, host_port) == FALSE

\* the unique columns container_id and host_port refuse a row
Refused(table, container_id, host_port) ==
    \E r \in table : r.container_id = container_id \/ r.host_port = host_port

\* start_container_batch(db, project_id, request) is called: the image is
\* there, the first port of the batch is computed from the latest row
StartBatch(s, project_id, container_count) ==
    /\ batch[s].pc = "idle"
    /\ container_seq < MaxRows
    /\ batch' = [batch EXCEPT ![s] =
                   [pc |-> "insert", project_id |-> project_id, next_port |-> GetNextAvailablePort(containers),
                    latest |-> IF containers = {} THEN 0
                               ELSE PortOf(LatestContainer(containers).host_port),
                    i |-> 0, count |-> container_count, row |-> 0,
                    done |-> {}, res |-> "none"]]
    /\ UNCHANGED <<containers, container_seq, inserted_ports>>

\* start_container_batch: the row of container i is added and committed; a
\* refused insert is rolled back and ends the call with 500
InsertRow(s) ==
    /\ batch[s].pc = "insert"
    /\ LET current_host_port == batch[s].next_port + batch[s].i
       IN IF Refused(containers, "pending", HostPort(current_host_port))
          THEN /\ batch' = [batch EXCEPT ![s] = Internal]
               /\ UNCHANGED <<containers, container_seq, inserted_ports>>
          ELSE /\ container_seq < MaxRows
               /\ container_seq' = container_seq + 1
               /\ containers' = containers \cup
                     {[id |-> container_seq + 1, project_id |-> batch[s].project_id,
                       container_id |-> "pending",
                       host_port |-> HostPort(current_host_port), status |-> "creating"]}
               /\ inserted_ports' = Append(inserted_ports, current_host_port)
               /\ batch' = [batch EXCEPT ![s].pc = "run", ![s].row = container_seq + 1]

\* start_container_batch: containers.run returns and the row gets the id of
\* the container and status running, or raises and the row gets status error
\* and the call ends with 500; a row removed meanwhile cannot be updated
RunContainer(s, ok) ==
    /\ batch[s].pc = "run"
    /\ LET mine == {r \in containers : r.id = batch[s].row}
           rest == containers \ mine
       IN IF mine = {}
          THEN /\ batch' = [batch EXCEPT ![s] = Internal]
               /\ UNCHANGED containers
          ELSE IF ok
               THEN /\ containers' = rest \cup
                         {[r EXCEPT !.container_id = <<"docker", r.id>>, !.status = "running"] :
                            r \in mine}
                    /\ batch' = [batch EXCEPT ![s] =
                                   IF batch[s].i + 1 = batch[s].count THEN Created
                                   ELSE [@ EXCEPT !.pc = "insert", !.i = @ + 1, !.row = 0,
                                                  !.done = @ \cup {batch[s].row}]]
               ELSE /\ containers' = rest \cup {[r EXCEPT !.status = "error"] : r \in mine}
                    /\ batch' = [batch EXCEPT ![s] = Internal]
    /\ UNCHANGED <<container_seq, inserted_ports>>

\* remove_container(db, container_db_id): the container is stopped and
\* removed, or is not found, and the row is deleted
remove_container(container_db_id) ==
    /\ \E r \in containers : r.id = container_db_id
    /\ containers' = {r \in containers : r.id # container_db_id}
    /\ UNCHANGED <<container_seq, batch, inserted_ports>>

\* what a step of the container service leaves alone
svars == <<tasks, results, sess, now, last, handed, held, proxy_groups_list,
           proxy_group_rr_index, proxy_group_failure_count, proxy_group_blacklist,
           container_proxy_rules, config, thr, trip, health, boot, series,
           alert_store, reported, alerts_out>>

\* batch creates of two requests at once, and removals
NextContainers ==
    \/ \E s \in Sessions, project_id \in Projects, n \in 1..MaxBatch :
         StartBatch(s, project_id, n) /\ UNCHANGED svars
    \/ \E s \in Sessions : InsertRow(s) /\ UNCHANGED svars
    \/ \E s \in Sessions, ok \in BOOLEAN : RunContainer(s, ok) /\ UNCHANGED svars
    \/ \E id \in 1..MaxRows : remove_container(id) /\ UNCHANGED svars

SpecContainers == Init /\ [][NextContainers]_vars

\* ------------------------------------------------------------ stop requests
\* what docker answers to containers.get(container_id) and container.stop():
\* the container stops, or is not found, or the API raises
DockerOutcomes == {"stopped", "not_found", "api_error"}

\* stop_container(db, container_db_id), the row after the call: exited after
\* a stop, unknown after NotFound, as it was after APIError (HTTP 500)
StoppedRow(r, docker) ==
    IF docker = "stopped" THEN [r EXCEPT !.status = "exited"]
    ELSE IF docker = "not_found" THEN [r EXCEPT !.status = "unknown"]
    ELSE r

\* Container.project_id == project_id, Container.status.in_(active_statuses)
ActiveRows(table, project_id) ==
    {r \in table : r.project_id = project_id
                      /\ r.status \in {"running", "creating", "restarting"}}

\* the ids of the rows the bulk stop asks docker about
ActiveIds(table, project_id) == {r.id : r \in ActiveRows(table, project_id)}

\* what a stop request leaves alone
kvars == <<tasks, results, sess, now, handed, held, proxy_groups_list,
           proxy_group_rr_index, proxy_group_failure_count, proxy_group_blacklist,
           container_proxy_rules, config, thr, trip, health, boot, series,
           alert_store, reported, alerts_out, container_seq, batch, inserted_ports>>

\* POST /containers/{id}/stop; no container has the id 'pending'
stop_container(container_db_id, docker) ==
    /\ \E r \in containers : r.id = container_db_id
    /\ \A r \in containers :
          (r.id = container_db_id /\ r.container_id = "pending") => docker # "stopped"
    /\ containers' = {IF r.id = container_db_id THEN StoppedRow(r, docker) ELSE r :
                        r \in containers}
    /\ last' = [op |-> "stop", w |-> NULL, t |-> container_db_id,
                ret |-> IF docker = "api_error" THEN 500 ELSE 200]
    /\ UNCHANGED kvars

\* stop_all_containers_for_project(db, project_id): stop_container on every
\* active row of the project, an exception of one call being logged;
\* stopped_count counts the calls that raised nothing
stop_all_containers_for_project(project_id, docker) ==
    LET containers_to_stop == ActiveRows(containers, project_id)
    IN /\ \A r \in containers_to_stop : r.container_id = "pending" => docker[r.id] # "stopped"
       /\ containers' = {IF r \in containers_to_stop THEN StoppedRow(r, docker[r.id]) ELSE r :
                           r \in containers}
       /\ last' = [op |-> "stop_all", w |-> NULL, t |-> project_id,
                   ret |-> Cardinality({r \in containers_to_stop : docker[r.id] # "api_error"})]
       /\ UNCHANGED kvars

\* batch creates of one request at a time, removals and stops, of one
\* container and of a project
NextStop ==
    \/ \E project_id \in Projects, n \in 1..MaxBatch :
         StartBatch(1, project_id, n) /\ UNCHANGED svars
    \/ InsertRow(1) /\ UNCHANGED svars
    \/ \E ok \in BOOLEAN : RunContainer(1, ok) /\ UNCHANGED svars
    \/ \E id \in 1..MaxRows : remove_container(id) /\ UNCHANGED svars
    \/ \E id \in 1..MaxRows, docker \in DockerOutcomes : stop_container(id, docker)
    \/ \E project_id \in Projects :
         \E docker \in [ActiveIds(containers, project_id) -> DockerOutcomes] :
            stop_all_containers_for_project(project_id, docker)

SpecStop == Init /\ [][NextStop]_vars

\* ------------------------------------------------------------------ alerts
\* f"{REDIS_ALERT_PREFIX}{worker_id}"
RedisKey(worker_id) == <<REDIS_ALERT_PREFIX>> \o worker_id

\* str.replace(old, ""): every occurrence of old is taken out
Replace(string, old) == SelectSeq(string, LAMBDA part : part # old)

\* what a step on the alerts leaves alone
avars == <<tasks, results, sess, now, last, handed, held, proxy_groups_list,
           proxy_group_rr_index, proxy_group_failure_count, proxy_group_blacklist,
           container_proxy_rules, config, thr, trip, health, boot, series,
           containers, container_seq, batch, inserted_ports>>

\* report_status(db, redis_client, project_id, worker_id, status, message):
\* needs_manual_intervention stores the alert, running deletes it, any other
\* status is logged
report_status(project_id, worker_id, status, message) ==
    LET redis_key == RedisKey(worker_id)
    IN /\ alert_store' =
            IF status = "needs_manual_intervention"
            THEN HSet(alert_store, redis_key,
                      [status |-> status, message |-> message, project_id |-> project_id])
            ELSE IF status = "running" THEN HDel(alert_store, redis_key)
            ELSE alert_store
       /\ reported' = IF status \in {"needs_manual_intervention", "running"}
                      THEN [reported EXCEPT ![worker_id] = status]
                      ELSE reported
       /\ UNCHANGED alerts_out
       /\ UNCHANGED avars

\* get_all_alerts(redis_client): every key under the prefix, in the order
\* Redis gives them, with its alert and the worker_id read back from the key
get_all_alerts ==
    /\ alerts_out.calls < MaxLists
    /\ \E alert_keys \in Orders({k \in DOMAIN alert_store : k[1] = REDIS_ALERT_PREFIX}) :
          alerts_out' =
             [calls |-> alerts_out.calls + 1,
              alerts |-> [i \in DOMAIN alert_keys |->
                            [status |-> alert_store[alert_keys[i]].status,
                             message |-> alert_store[alert_keys[i]].message,
                             project_id |-> alert_store[alert_keys[i]].project_id,
                             worker_id |-> Replace(alert_keys[i], REDIS_ALERT_PREFIX)]]]
    /\ UNCHANGED <<alert_store, reported>>
    /\ UNCHANGED avars

\* status reports of workers, one after the other, and listings of the alerts
NextAlerts ==
    \/ \E p \in 1..2, w \in WorkerIds, st \in Statuses, m \in {"captcha", NULL} :
          report_status(p, w, st, m)
    \/ get_all_alerts

SpecAlerts == Init /\ [][NextAlerts]_vars

\* the address docker gives the container of a row on the network of clash
ContainerIp(id) == <<"172.22.0", id + 1>>

\* the rules of config.yml that route the address container_ip
RulesFor(rules, container_ip) ==
    SelectSeq(rules, LAMBDA rule : IsContainerRule(rule) /\ rule[2][1] = container_ip)

\* POST /proxy/refresh: merge_and_update_clash_config() called by the router
\* between two other requests, for any provider inventory
refresh_clash_configuration(url_test_groups, readable, ok) ==
    /\ Up
    /\ \A x \in Threads : thr[x].pc = "idle"
    /\ merge_and_update_clash_config(url_test_groups, readable, ok)
    /\ UNCHANGED <<trip, health, boot, series>> /\ UNCHANGED tvars

\* the startup sequence with refreshes of the configuration
NextRefresh ==
    \/ \E lost \in {"none", "rules", "all"} : Restart(lost)
    \/ \E ok \in BOOLEAN : recover_container_mappings_from_config(ok)
    \/ \E ok \in BOOLEAN : CheckGroups(ok)
    \/ \E g \in Provided, readable, ok \in BOOLEAN : MergeAtStartup(g, readable, ok)
    \/ start_health_checker
    \/ start_container_reassigner
    \/ \E g \in Provided, readable, ok \in BOOLEAN : refresh_clash_configuration(g, readable, ok)

SpecRefresh == Init /\ [][NextRefresh]_vars

\* assign, release and forced reassignment requests, one at a time, every
\* step failing where it can
NextForce ==
    \/ \E ip \in IPs : CallAssign("req1", ip) /\ Untraced
    \/ \E ip \in IPs : CallRelease("req1", ip) /\ Untraced
    \/ \E ip \in IPs : force_reassign_container("req1", ip) /\ Untraced
    \/ ReadBlacklist("req1") /\ Untraced
    \/ get_healthy_proxy_groups("req1") /\ Untraced
    \/ ChooseGroup("req1") /\ Untraced
    \/ ReadConfig("req1") /\ Untraced
    \/ \E ok \in BOOLEAN : WriteConfig("req1", ok) /\ Untraced
    \/ \E ok \in BOOLEAN : RestartAndRecord("req1", ok) /\ Untraced
    \/ ReleaseLookup("req1") /\ Untraced
    \/ ReleaseRead("req1") /\ Untraced
    \/ ReleaseReadFails("req1") /\ Untraced
    \/ \E ok \in BOOLEAN : ReleaseWrite("req1", ok) /\ Untraced
    \/ ReleaseRestartFails("req1") /\ Untraced
    \/ ReleaseDelete("req1") /\ Untraced

SpecForce == InitRelease /\ [][NextForce]_vars

\* POST /proxy/health/initialize: initialize_proxy_health_services() starts a
\* health-check thread and a reassignment thread
initialize_health_services ==
    /\ Up
    /\ boot.health_threads < MaxLoops /\ boot.reassign_threads < MaxLoops
    /\ boot' = [boot EXCEPT !.health_threads = @ + 1, !.reassign_threads = @ + 1]
    /\ UNCHANGED <<proxy_groups_list, proxy_group_rr_index, proxy_group_failure_count,
                   proxy_group_blacklist, container_proxy_rules, config, thr, now>>
    /\ UNCHANGED <<trip, health, series>> /\ UNCHANGED tvars

\* POST /proxy/initialize: initialize_proxy_manager() is called in the running
\* process, whose threads go on
initialize_proxy_manager ==
    /\ Up
    /\ boot.health_threads < MaxLoops /\ boot.reassign_threads < MaxLoops
    /\ \A x \in Threads : thr[x].pc = "idle"
    /\ boot' = [boot EXCEPT !.pc = "recover", !.read = FALSE, !.recovered = FALSE,
                            !.checked = FALSE, !.merged = FALSE]
    /\ UNCHANGED <<proxy_groups_list, proxy_group_rr_index, proxy_group_failure_count,
                   proxy_group_blacklist, container_proxy_rules, config, thr, now>>
    /\ UNCHANGED <<trip, health, series>> /\ UNCHANGED tvars

\* the process starts, and the two initialisations are asked for while it runs
NextLoops ==
    \/ \E lost \in {"none", "rules", "all"} : Restart(lost)
    \/ \E ok \in BOOLEAN : recover_container_mappings_from_config(ok)
    \/ \E ok \in BOOLEAN : CheckGroups(ok)
    \/ \E g \in Provided, readable, ok \in BOOLEAN : MergeAtStartup(g, readable, ok)
    \/ start_health_checker
    \/ start_container_reassigner
    \/ initialize_health_services
    \/ initialize_proxy_manager

SpecLoops == Init /\ [][NextLoops]_vars

\* get_proxy_groups_health_status(): the groups of the list reported with
\* is_blacklisted True (group_name in blacklist), kept in bl; nothing is written
get_proxy_groups_health_status(x) ==
    /\ thr[x].pc = "idle"
    /\ thr' = [thr EXCEPT ![x] =
                 [IdleThread EXCEPT !.op = "status", !.res = "ok",
                                    !.bl = {g \in Range(proxy_groups_list) :
                                              g \in DOMAIN proxy_group_blacklist}]]
    /\ UNCHANGED <<proxy_groups_list, proxy_group_rr_index, proxy_group_failure_count,
                   proxy_group_blacklist, container_proxy_rules, config, now>>

\* the reassignment loop beside failing probes of the health check, the clock
\* and the requests for the health report
NextExpiry ==
    \/ reassign_unhealthy_containers("loop") /\ Untraced
    \/ ReassignNext("loop") /\ Untraced
    \/ ReadBlacklist("loop") /\ Untraced
    \/ get_healthy_proxy_groups("loop") /\ Untraced
    \/ ChooseGroup("loop") /\ Untraced
    \/ ReadConfig("loop") /\ Untraced
    \/ WriteConfig("loop", TRUE) /\ Untraced
    \/ RestartAndRecord("loop", TRUE) /\ Untraced
    \/ ReleaseLookup("loop") /\ Untraced
    \/ ReleaseRead("loop") /\ Untraced
    \/ ReleaseWrite("loop", TRUE) /\ Untraced
    \/ ReleaseDelete("loop") /\ Untraced
    \/ \E g \in Range(proxy_groups_list) :
         /\ CountBelow(g, FALSE, MaxFailures)
         /\ update_proxy_group_health(g, FALSE) /\ Untraced
    \/ get_proxy_groups_health_status("req1") /\ Untraced
    \/ Tick /\ UNCHANGED pvars

SpecExpiry == InitReassign /\ [][NextExpiry]_vars

\* health_check_worker: the read of the list of groups raises; the handler
\* of the loop logs the error and sleeps 30 seconds
HealthCaught ==
    /\ health.pc = "sleep"
    /\ health.n < MaxIterations
    /\ health' = [health EXCEPT !.pc = "caught", !.n = @ + 1]
    /\ UNCHANGED <<proxy_groups_list, proxy_group_rr_index, proxy_group_failure_count,
                   proxy_group_blacklist, container_proxy_rules, config, thr, now>>
    /\ UNCHANGED <<trip, boot, series>> /\ UNCHANGED tvars

\* a handler that logs the error and leaves the loop
HealthResume_Exits ==
    /\ health.pc = "caught"
    /\ health' = [health EXCEPT !.pc = "exited"]
    /\ UNCHANGED <<proxy_groups_list, proxy_group_rr_index, proxy_group_failure_count,
                   proxy_group_blacklist, container_proxy_rules, config, thr, now>>
    /\ UNCHANGED <<trip, boot, series>> /\ UNCHANGED tvars

\* health_check_worker: the sleep of the handler is over, `while True` goes
\* on with the next iteration
HealthResume ==
    /\ health.pc = "caught"
    /\ health' = [health EXCEPT !.pc = "sleep"]
    /\ UNCHANGED <<proxy_groups_list, proxy_group_rr_index, proxy_group_failure_count,
                   proxy_group_blacklist, container_proxy_rules, config, thr, now>>
    /\ UNCHANGED <<trip, boot, series>> /\ UNCHANGED tvars

\* reassign_unhealthy_containers(): the read of the rules or of the blacklist
\* raises; the handler of the function logs the error and the tick is over
ReassignCaught(x) ==
    /\ thr[x].pc = "idle"
    /\ thr[x].ticks < MaxTicks
    /\ thr' = [thr EXCEPT ![x] = [IdleThread EXCEPT !.op = "tick", !.res = "error",
                                                    !.ticks = thr[x].ticks + 1]]
    /\ UNCHANGED <<proxy_groups_list, proxy_group_rr_index, proxy_group_failure_count,
                   proxy_group_blacklist, container_proxy_rules, config, now>>

\* the steps of the thread of health_check_worker
HealthWorker ==
    \/ HealthStart
    \/ HealthCaught
    \/ HealthResume
    \/ \E g \in Range(proxy_groups_list), is_healthy \in BOOLEAN : HealthResult(g, is_healthy)
    \/ HealthEnd

\* the steps of the thread of container_reassign_worker; the write of release
\* goes to the same step whether it fails or not, so it is taken to succeed
ReassignWorker ==
    \/ reassign_unhealthy_containers("loop") /\ Untraced
    \/ ReassignCaught("loop") /\ Untraced
    \/ ReassignNext("loop") /\ Untraced
    \/ ReleaseLookup("loop") /\ Untraced
    \/ ReleaseRead("loop") /\ Untraced
    \/ ReleaseWrite("loop", TRUE) /\ Untraced
    \/ ReleaseDelete("loop") /\ Untraced
    \/ ReadBlacklist("loop") /\ Untraced
    \/ get_healthy_proxy_groups("loop") /\ Untraced
    \/ ChooseGroup("loop") /\ Untraced
    \/ ReadConfig("loop") /\ Untraced
    \/ \E ok \in BOOLEAN : WriteConfig("loop", ok) /\ Untraced
    \/ \E ok \in BOOLEAN : RestartAndRecord("loop", ok) /\ Untraced

\* the two background threads, each a daemon thread the interpreter keeps
\* scheduling: a sleep returns and a call returns or raises
NextWorkers ==
    \/ HealthWorker
    \/ ReassignWorker

SpecWorkers ==
    InitRelease /\ [][NextWorkers]_vars /\ WF_vars(HealthWorker) /\ WF_vars(ReassignWorker)

\* rules config.yml can hold when a merge reads it: container rules of a
\* group the providers still give and of one they give no more (g9), a MATCH
\* rule of that group, a rule of two parts of another kind, the closing rules
HeldRules ==
    {Rule("ip1", "g1"), Rule("ip2", "g2"), Rule("ip2", "g9"), <<"MATCH", "g9">>,
     <<"PROCESS-NAME", "g9">>, DefaultRules[1], DefaultRules[2]}

\* values config.yml can hold under port and secret: a number, a switch, a
\* word, nothing, and a secret made of digits
HeldValues ==
    {YamlValue("int", <<"7", "8", "9", "0">>), YamlValue("bool", <<"T", "r", "u", "e">>),
     YamlValue("str", <<"a", "b">>), YamlValue("str", <<>>), YamlValue("str", <<"1", "2">>)}

\* the lists of at most MaxHeld of these rules
HeldLists == UNION {[1..n -> HeldRules] : n \in 0..MaxHeld}

\* config.yml as somebody left it, Redis holding the rules of the containers
InitSweep ==
    /\ TaskInit
    /\ ContainerInit
    /\ proxy_groups_list = Groups
    /\ proxy_group_rr_index = 0
    /\ proxy_group_failure_count = EmptyHash
    /\ proxy_group_blacklist = EmptyHash
    /\ config \in {[exists |-> TRUE, groups |-> Groups, rules |-> rules, other |-> other] :
                      rules \in HeldLists, other \in [DOMAIN DefaultKeys -> HeldValues]}
    /\ container_proxy_rules =
         [ip \in {r[2][1] : r \in {q \in Range(config.rules) : IsContainerRule(q)}} |->
            CHOOSE r \in Range(config.rules) : IsContainerRule(r) /\ r[2][1] = ip]
    /\ thr = [x \in Threads |-> IdleThread]
    /\ trip = NoTrip
    /\ health = IdleHealth
    /\ boot = IdleBoot
    /\ series = NoSeries

\* POST /proxy/refresh on such a file
NextSweep ==
    \E g \in Provided, readable, ok \in BOOLEAN : refresh_clash_configuration(g, readable, ok)

SpecSweep == InitSweep /\ [][NextSweep]_vars

\* a worker that was handed task p[2] by get_next_task sends its result or its
\* failure report, whoever owns the row by now; handed keeps every pair a
\* claim returned and last.w names the sender
NextLate ==
    \/ \E w \in Workers :
         /\ Claim(w)
         /\ handed' = IF ClaimResult(tasks, w) = 0 THEN handed
                      ELSE handed \cup {<<w, ClaimResult(tasks, w)>>}
         /\ last' = [op |-> "claim", w |-> w, t |-> 0, ret |-> ClaimResult(tasks, w)]
         /\ UNCHANGED held /\ UNCHANGED pvars
    \/ \E p \in handed, data \in DataInputs :
         /\ SubmitResult(p[2], data, "none")
         /\ last' = [op |-> "submit", w |-> p[1], t |-> p[2], ret |-> Len(data)]
         /\ UNCHANGED <<handed, held>> /\ UNCHANGED pvars
    \/ \E p \in handed :
         /\ ReportFailure(p[2], TRUE)
         /\ last' = [op |-> "fail", w |-> p[1], t |-> p[2], ret |-> 0]
         /\ UNCHANGED <<handed, held>> /\ UNCHANGED pvars

SpecLate == InitConc /\ [][NextLate]_vars

\* ================================================================== claims
Terminal == {"completed", "failed"}

\* C1 (SpecClaim): get_next_task requests of different workers running
\* concurrently against N pending rows never return the same row: two
\* statements that have run hold different rows, a row is returned to one worker
\* only, at most N rows are returned, and a returned row is in_progress under
\* the worker it was returned to.
C1_ClaimsDisjoint ==
    /\ \A s1, s2 \in Sessions :
         (/\ s1 # s2
          /\ sess[s1].pc = "exec" /\ sess[s2].pc = "exec"
          /\ sess[s1].w # sess[s2].w
          /\ sess[s1].ret # 0) => sess[s1].ret # sess[s2].ret
    /\ \A p, q \in handed : p[2] = q[2] => p[1] = q[1]
    /\ Cardinality({p[2] : p \in handed}) <= Len(tasks)
    /\ \A p \in handed : /\ p[2] \in TaskIds
                         /\ tasks[p[2]].status = "in_progress"
                         /\ tasks[p[2]].worker_id = p[1]

\* two workers' statements have both run, neither committed, each holding a row
C1_Witness ==
    \E s1, s2 \in Sessions :
        /\ sess[s1].pc = "exec" /\ sess[s2].pc = "exec"
        /\ sess[s1].w # sess[s2].w
        /\ sess[s1].ret # 0 /\ sess[s2].ret # 0

\* C2 (Spec): a row whose status is completed or failed keeps that status in
\* every step of claim, submit and report-failure requests.
C2_TerminalIsFinal ==
    [][\A t \in TaskIds : tasks[t].status \in Terminal => tasks'[t].status = tasks[t].status]_vars

\* C3 (SpecAdd): every in_progress row has a worker_id and a claimed_at.
C3_InProgressHasClaimant ==
    \A t \in TaskIds :
        tasks[t].status = "in_progress" => tasks[t].worker_id # NULL /\ tasks[t].claimed_at # NULL

\* C4 (Spec): a failure report on an in_progress row adds one to retry_count and
\* leaves the row pending at counts 1 and 2 and failed at count 3; no count
\* passes 3, a failed row is never pending or in_progress again, and in no
\* state does a claim by any worker return a failed row.
C4_ReportStep ==
    \A t \in TaskIds :
        (last'.op = "fail" /\ last'.t = t /\ tasks[t].status = "in_progress") =>
            /\ tasks'[t].retry_count = tasks[t].retry_count + 1
            /\ tasks'[t].retry_count \in {1, 2} => tasks'[t].status = "pending"
            /\ tasks'[t].retry_count = 3 => tasks'[t].status = "failed"
            /\ tasks'[t].retry_count <= 3
C4_FailedStays ==
    \A t \in TaskIds :
        /\ tasks'[t].retry_count # tasks[t].retry_count => last'.op = "fail" /\ last'.t = t
        /\ tasks[t].status = "failed" => tasks'[t].status \notin {"pending", "in_progress"}
C4_NoClaimOfFailed ==
    /\ \A t \in TaskIds : tasks[t].status = "failed" => tasks[t].retry_count = 3
    /\ last.op = "claim" /\ last.ret # 0 => tasks[last.ret].status # "failed"
    /\ \A w \in Workers, t \in TaskIds : tasks[t].status = "failed" => ClaimResult(tasks, w) # t
\* C4: every report step counts and settles the row as stated, and no claim
\* returns a failed row
C4_RetryCeiling ==
    [][C4_ReportStep /\ C4_FailedStays]_vars /\ []C4_NoClaimOfFailed

\* a row failed at count 3 and a claim made after that returned nothing
C4_Witness ==
    /\ \E t \in TaskIds : tasks[t].status = "failed" /\ tasks[t].retry_count = 3
    /\ \A t \in TaskIds : tasks[t].status = "failed"
    /\ last.op = "claim" /\ last.ret = 0

\* C5 (SpecRepeat): a get_next_task statement of a worker that owns an
\* in_progress row returns the lowest-id row it owns and updates no row, and a
\* call repeated while the row returned before is neither submitted nor
\* reported failed returns that row again.
C5_ReturnsOwned ==
    \A s \in Sessions, w \in Workers :
        (sess[s].pc = "idle" /\ sess'[s].pc = "snap" /\ sess'[s].w = w) =>
            LET own == {t \in TaskIds : tasks[t].status = "in_progress" /\ tasks[t].worker_id = w}
            IN own # {} => sess'[s].existing \in own /\ \A t \in own : sess'[s].existing <= t
C5_NoUpdate ==
    \A s \in Sessions :
        (sess[s].pc = "snap" /\ sess[s].existing # 0 /\ sess'[s].pc = "exec") =>
            sess'[s].ret = sess[s].existing /\ sess'[s].target = 0
C5_NoChange ==
    \A s \in Sessions :
        (sess[s].pc = "exec" /\ sess[s].existing # 0 /\ sess'[s].pc = "idle") => tasks' = tasks
C5_SameRow ==
    \A s \in Sessions, w \in Workers :
        (sess[s].pc = "idle" /\ sess'[s].pc = "snap" /\ sess'[s].w = w /\ held[w] # 0) =>
            sess'[s].existing = held[w]
\* C5: every claim of an owning worker returns its lowest row, updates nothing
\* and repeats the row returned before
C5_ClaimIdempotent ==
    [][C5_ReturnsOwned /\ C5_NoUpdate /\ C5_NoChange /\ C5_SameRow]_vars

\* the part of C5 that holds: the row returned and the rows left alone
C5_OwnedRowReturned ==
    [][C5_ReturnsOwned /\ C5_NoUpdate /\ C5_NoChange]_vars

\* C6 (Spec): report_task_failure on a row that is not in_progress, or on an id
\* that is not in the table, leaves every row as it was.
C6_FailureNoOp ==
    [][(/\ last'.op = "fail"
        /\ (last'.t \notin TaskIds \/ tasks[last'.t].status # "in_progress")) => tasks' = tasks]_vars

\* a failure report has returned for a row that is completed
C6_Witness ==
    /\ last.op = "fail"
    /\ last.t \in TaskIds
    /\ tasks[last.t].status = "completed"

\* C7 (SpecSubmit): a submission with rows that meets a database failure stores
\* no row and changes no task; one that succeeds appends exactly its rows, each
\* with task_id = T, and leaves task T completed.
C7_SubmitStep ==
    /\ (last'.op = "submit_error" /\ last'.ret > 0) => results' = results /\ tasks' = tasks
    /\ (last'.op = "submit" /\ last'.ret > 0) =>
          /\ Len(results') = Len(results) + last'.ret
          /\ SubSeq(results', 1, Len(results)) = results
          /\ \A i \in (Len(results) + 1)..Len(results') : results'[i].task_id = last'.t
          /\ last'.t \in TaskIds => tasks'[last'.t].status = "completed"
\* C7: every submission with rows is all-or-nothing
C7_SubmitAtomic == [][C7_SubmitStep]_vars

\* a two-row submission for a claimed task has failed
C7_Witness ==
    /\ last.op = "submit_error" /\ last.ret = 2
    /\ last.t \in TaskIds
    /\ tasks[last.t].status = "in_progress"

\* the positions of the rules of config.yml that route container_ip
RulesOf(container_ip) ==
    {j \in 1..Len(config.rules) :
        /\ config.rules[j][1] = "SRC-IP-CIDR"
        /\ config.rules[j][2] = <<container_ip, "/32">>}

\* C8 (SpecRace): when no assign or release is running, config.yml holds the
\* rule of every container that has one in Redis, once, and no rule of a
\* container that has none: no insertion and no removal made by two calls on
\* different containers running side by side is lost.
C8_NoLostUpdate ==
    (\A x \in Threads : thr[x].pc = "idle") =>
        \A ip \in IPs :
            IF ip \in DOMAIN container_proxy_rules
            THEN /\ Cardinality(RulesOf(ip)) = 1
                 /\ \A j \in RulesOf(ip) : config.rules[j] = container_proxy_rules[ip]
            ELSE RulesOf(ip) = {}

C9_TickStep ==
    \A x \in Threads :
        thr[x].op = "tick" =>
            /\ (thr[x].pc = "t_loop" /\ thr'[x].pc = "idle") =>
                   thr[x].due \subseteq (thr[x].errors \cup thr[x].reassigned)
            /\ (thr[x].pc = "sweep" /\ thr'[x].pc = "choose") =>
                   /\ thr'[x].seen = DOMAIN proxy_group_blacklist'
                   /\ Range(thr'[x].healthy) = Range(proxy_groups_list) \ thr'[x].seen
            /\ (thr[x].pc = "choose" /\ thr'[x].pc = "read") =>
                   \/ thr'[x].group \notin thr[x].seen
                   \/ Range(proxy_groups_list) \subseteq thr[x].seen
            /\ (thr[x].pc = "restart" /\ thr[x].ip \in thr'[x].reassigned) =>
                   /\ thr[x].ip \in DOMAIN container_proxy_rules'
                   /\ container_proxy_rules'[thr[x].ip] = Rule(thr[x].ip, thr[x].group)
ReleaseReturns(x) ==
    /\ thr[x].op = "release" /\ thr[x].pc # "idle"
    /\ thr'[x].pc = "idle"

\* C11 (SpecRelease): release_proxy_from_container raises nothing to its
\* caller, and when Redis held a rule for the container it has none when
\* release returns: with config.yml missing, unreadable or unwritable, and
\* with a failing restart of clash.
C11_ReleaseStep ==
    \A x \in Threads :
        ReleaseReturns(x) =>
            /\ thr'[x].res # "error"
            /\ thr[x].rule # NoRule => thr[x].ip \notin DOMAIN container_proxy_rules'
\* C11: every return of release is as stated above
C11_ReleaseCleans == [][C11_ReleaseStep]_vars

\* a release has returned whose work on config.yml failed: the rule of the
\* container is still in the file and no longer in Redis
C11_Witness ==
    /\ thr["req1"].op = "release" /\ thr["req1"].pc = "idle"
    /\ thr["req1"].res = "ok" /\ ~thr["req1"].wrote
    /\ thr["req1"].ip \notin DOMAIN container_proxy_rules
    /\ RulesOf(thr["req1"].ip) # {}

C12_ReadStep ==
    \A x \in Threads :
        thr[x].op = "assign" =>
            /\ (thr[x].pc = "get_healthy" /\ thr'[x].pc = "sweep") =>
                   thr'[x].expired =
                       {g \in DOMAIN proxy_group_blacklist : proxy_group_blacklist[g] < now}
            /\ (thr[x].pc = "sweep" /\ thr'[x].pc = "choose") =>
                   /\ DOMAIN proxy_group_blacklist' = DOMAIN proxy_group_blacklist \ thr[x].expired
                   /\ \A g \in DOMAIN proxy_group_blacklist' :
                          proxy_group_blacklist'[g] = proxy_group_blacklist[g]
                   /\ thr'[x].seen = DOMAIN proxy_group_blacklist'
                   /\ Range(thr'[x].healthy) = Range(proxy_groups_list) \ thr'[x].seen
            /\ (thr[x].pc = "choose" /\ thr'[x].pc = "read") =>
                   (~(Range(proxy_groups_list) \subseteq thr[x].seen) =>
                        thr'[x].group \notin thr[x].seen)
            /\ (thr[x].pc = "restart" /\ thr'[x].res = "ok") =>
                   container_proxy_rules'[thr[x].ip] = Rule(thr[x].ip, thr[x].group)
C13_RoundRobin ==
    LET H == series.H
        n == Len(H)
        out == series.out
    IN n >= 1 =>
         /\ \A k \in 1..Len(out) : out[k] = H[((series.c + k - 1) % n) + 1]
         /\ \A j \in 0..(Len(out) - n) : {out[j + i] : i \in 1..n} = Range(H)
         /\ (H = Groups3 /\ series.c = 10 /\ Len(out) >= 3) =>
                SubSeq(out, 1, 3) = <<"US-01", "HK-01", "JP-01">>

\* three assigns of the example have returned
C13_Witness ==
    /\ series.H = Groups3 /\ series.c = 10
    /\ series.out = <<"US-01", "HK-01", "JP-01">>
    /\ proxy_group_rr_index = 13

\* C14 (SpecPair), as stated: two assigns that overlap obtain different values
\* of proxy_group_rr_index and, each with a healthy list of two groups or
\* more, different groups, however the health check interleaves with them.
C14_DistinctGroups ==
    (series.overlap /\ Len(series.calls) = 2) =>
        LET a == series.calls[1]
            b == series.calls[2]
        IN /\ (a.index # 0 /\ b.index # 0) => a.index # b.index
           /\ (Len(a.healthy) >= 2 /\ Len(b.healthy) >= 2) => a.group # b.group

\* C14 (SpecPair), amended: two assigns that find a healthy group obtain
\* different values of proxy_group_rr_index, and different groups when both
\* read the same healthy list of two groups or more.
C14_DistinctOnSameList ==
    Len(series.calls) = 2 =>
        LET a == series.calls[1]
            b == series.calls[2]
        IN /\ (a.index # 0 /\ b.index # 0) => a.index # b.index
           /\ (Len(a.healthy) >= 2 /\ a.healthy = b.healthy) => a.group # b.group

\* two overlapping assigns have returned that read the same healthy list of
\* two groups or more
C14_Witness ==
    /\ series.overlap /\ Len(series.calls) = 2
    /\ \A x \in Threads : thr[x].pc = "idle" /\ thr[x].res = "ok"
    /\ series.calls[1].healthy = series.calls[2].healthy
    /\ Len(series.calls[1].healthy) >= 2
    /\ series.calls[1].group # series.calls[2].group
    /\ series.calls[1].x # series.calls[2].x

\* failure_counts.get(group, 0)
FailuresOf(group) ==
    IF group \in DOMAIN proxy_group_failure_count THEN proxy_group_failure_count[group] ELSE 0

\* C15 (SpecFallback): an assign whose healthy list is empty chooses a group
\* with the smallest failure count, a missing count taken as 0, and of the
\* groups with that count the first of the group list.
C15_FallbackStep ==
    \A x \in Threads :
        (thr[x].pc = "choose" /\ thr'[x].pc = "read" /\ thr[x].healthy = <<>>) =>
            \E i \in 1..Len(proxy_groups_list') :
                /\ thr'[x].group = proxy_groups_list'[i]
                /\ \A j \in 1..Len(proxy_groups_list') :
                       FailuresOf(proxy_groups_list'[i]) <= FailuresOf(proxy_groups_list'[j])
                /\ \A j \in 1..(i - 1) :
                       FailuresOf(proxy_groups_list'[j]) > FailuresOf(proxy_groups_list'[i])
\* C15: every choice made with an empty healthy list is as stated above
C15_LeastFailures == [][C15_FallbackStep]_vars

\* with every group blacklisted an assign has chosen a group that is not the
\* first of the list, for its smaller failure count
C15_Witness ==
    /\ thr["req1"].pc = "read" /\ thr["req1"].healthy = <<>>
    /\ Range(proxy_groups_list) \subseteq DOMAIN proxy_group_blacklist
    /\ thr["req1"].group # proxy_groups_list[1]
    /\ FailuresOf(thr["req1"].group) < FailuresOf(proxy_groups_list[1])

\* ------------------------------------------------------------------ C16
\* C16: at the end of every health check iteration, every group of
\* proxy_groups_list whose failure count is at least MAX_FAILURE_COUNT has a
\* blacklist entry later than now.
C16_BlacklistedAtEnd ==
    [][(health.pc = "probe" /\ health'.pc = "sleep") =>
         \A g \in Range(proxy_groups_list') :
            FailuresOf(g)' >= MAX_FAILURE_COUNT =>
               /\ g \in DOMAIN proxy_group_blacklist'
               /\ proxy_group_blacklist'[g] > now']_vars

\* ------------------------------------------------------------------ C17
\* C17: after Redis has lost container_proxy_rules, recovery from a readable
\* config.yml gives every container IP the rule it held before the loss, and
\* gives no other IP an entry.
C17_RecoveryRestores ==
    [][(boot.pc = "recover" /\ boot'.pc = "check" /\ boot.lost # "none" /\ boot'.read) =>
         container_proxy_rules' = boot.kv]_vars

\* ------------------------------------------------------------------ C18
\* C18 (SpecStartup): during startup the recovery of the container rules is
\* over before the list of groups is read; neither loop is started before
\* the recovery and the check of the list (its merge included) are over; the
\* merge runs only when the list read was empty; when it was not, the list
\* and config.yml are, when the loops are started, what they were when
\* startup began.
C18_StartupStep ==
    /\ (boot.pc = "check") => boot.recovered
    /\ (boot'.merged /\ ~boot.merged) =>
         boot.recovered /\ proxy_groups_list = <<>> /\ boot.list = <<>>
    /\ (boot'.health_started /\ ~boot.health_started) => boot.recovered /\ boot.checked
    /\ (boot'.reassign_started /\ ~boot.reassign_started) => boot.recovered /\ boot.checked
    /\ (boot.pc # "up" /\ boot.list # <<>>) =>
         /\ ~boot'.merged
         /\ proxy_groups_list' = boot.list
         /\ config' = boot.config

C19_UniqueHostPort ==
    \A r, q \in containers : r.host_port = q.host_port => r = q

\* two rows are there, and an insert of a second request was refused
C19_Witness ==
    /\ Cardinality(containers) >= 2
    /\ \E s \in Sessions : batch[s].pc = "insert" /\
          Refused(containers, "pending", HostPort(batch[s].next_port + batch[s].i))

\* ------------------------------------------------------------------ C20
\* C20 as stated: every inserted row has a port of at least 30000 that is
\* above the port of every row inserted before it, removed or not.
C20_IncreasingHistory ==
    \A j \in DOMAIN inserted_ports :
       /\ inserted_ports[j] >= VNC_PORT_START
       /\ \A i \in 1..(j - 1) : inserted_ports[i] < inserted_ports[j]

\* C20 (SpecContainers): every inserted row has a port of at least 30000 that
\* is above the port of the row with the highest id at the time its batch
\* read the table; the port of a removed row can be given again.
C20_AboveLatest ==
    [][\A s \in Sessions :
          (batch[s].pc = "insert" /\ batch'[s].pc = "run") =>
             /\ Len(inserted_ports') = Len(inserted_ports) + 1
             /\ inserted_ports'[Len(inserted_ports')] >= VNC_PORT_START
             /\ inserted_ports'[Len(inserted_ports')] > batch[s].latest
             /\ \E r \in containers' :
                   /\ r.id = batch'[s].row /\ r \notin containers
                   /\ r.host_port = HostPort(inserted_ports'[Len(inserted_ports')])]_vars

\* a port is given a second time, its first row removed
C20_Witness ==
    \E i, j \in DOMAIN inserted_ports :
       /\ i < j /\ inserted_ports[i] = inserted_ports[j]
       /\ \E r \in containers : r.host_port = HostPort(inserted_ports[j])

\* ------------------------------------------------------------------ C21
\* C21: when the launch of a container of a batch fails, in docker or in the
\* database, the call ends with 500, the row of that container is in the table
\* with status error, no further row of the batch is added, and the rows the
\* batch launched before are left as they were, running.
C21_FailedLaunch ==
    [][\A s \in Sessions :
          (batch[s].pc # "idle" /\ batch'[s].res = "internal") =>
             /\ batch'[s].pc = "idle"
             /\ \E r \in containers' :
                   /\ r.status = "error"
                   /\ r.host_port = HostPort(batch[s].next_port + batch[s].i)
                   /\ IF batch[s].pc = "run" THEN r.id = batch[s].row ELSE r \notin containers
             /\ \A r \in containers : r.id \in batch[s].done => r \in containers' /\ r.status = "running"]_vars

\* ------------------------------------------------------------------ C22
\* C22: the key container_alert:<w> exists exactly when the last report of w
\* with status needs_manual_intervention or running was
\* needs_manual_intervention, and get_all_alerts returns one alert with
\* worker_id = w for each such worker and none for any other.
C22_AlertsFollowReports ==
    [][/\ \A w \in WorkerIds :
            RedisKey(w) \in DOMAIN alert_store' <=> reported'[w] = "needs_manual_intervention"
       /\ alerts_out'.calls # alerts_out.calls =>
            \A w \in WorkerIds :
               Cardinality({i \in DOMAIN alerts_out'.alerts : alerts_out'.alerts[i].worker_id = w})
                 = IF reported[w] = "needs_manual_intervention" THEN 1 ELSE 0]_vars

\* ------------------------------------------------------------------ C23
\* C23: the launch of a container in a batch create stores the proxy rule of
\* its address; once remove_container has deleted a row, neither
\* container_proxy_rules nor config.yml holds a rule of its address; every key
\* of container_proxy_rules is the address of a row of containers.
C23_RuleFollowsContainer ==
    [][/\ \A s \in Sessions :
            (batch[s].pc = "run" /\ batch'[s].pc # "run" /\ batch'[s].res # "internal") =>
               ContainerIp(batch[s].row) \in DOMAIN container_proxy_rules'
       /\ \A r \in containers \ containers' :
            (\A q \in containers' : q.id # r.id) =>
               /\ ContainerIp(r.id) \notin DOMAIN container_proxy_rules'
               /\ RulesFor(config'.rules, ContainerIp(r.id)) = <<>>
       /\ \A ip \in DOMAIN container_proxy_rules' :
            \E r \in containers' : ContainerIp(r.id) = ip]_vars

\* ------------------------------------------------------------------ C24
\* C24: initialize_tasks_table, initialize_results_table and add_tasks called
\* with a user column that has the name of a fixed column of the table end
\* with 400 from the validation of the column names, and no table is dropped,
\* created or written.
C24_ReservedRejected ==
    [][/\ \A columns \in TaskColumnLists :
            (columns \cap FixedTaskColumns # {} /\ initialize_tasks_table(columns)) =>
               last'.ret = 400 /\ tasks' = tasks
       /\ \A columns \in ResultColumnLists :
            (columns \cap FixedResultColumns # {} /\ initialize_results_table(columns)) =>
               last'.ret = 400 /\ results' = results
       /\ \A data \in AnyTaskInputs :
            (DOMAIN data \cap FixedTaskColumns # {} /\ AddTasks(data)
               /\ last'.op \in {"add", "add_rejected"}) =>
               last'.op = "add_rejected" /\ tasks' = tasks]_vars

\* ------------------------------------------------------------------ C25
\* C25: after every merge that wrote config.yml, at startup or on a refresh,
\* proxy_groups_list is the list of the url-test groups the merge wrote to the
\* file, in the same order, also when the providers yield no proxies.
C25_ListFollowsMerge ==
    [][\A g \in Provided, readable \in BOOLEAN :
          (refresh_clash_configuration(g, readable, TRUE) \/ MergeAtStartup(g, readable, TRUE)) =>
             proxy_groups_list' = config'.groups]_vars

\* ------------------------------------------------------------------ C26
\* C26 as stated: a failure report on an in_progress row adds one to
\* retry_count and fails the row exactly when the count after the increment is
\* greater than 3; otherwise the row is pending with worker_id and claimed_at
\* cleared.
C26_FailsAboveCeiling ==
    [][\A t \in TaskIds :
          (last'.op = "fail" /\ last'.t = t /\ tasks[t].status = "in_progress") =>
             /\ tasks'[t].retry_count = tasks[t].retry_count + 1
             /\ tasks'[t].status = "failed" <=> tasks'[t].retry_count > MAX_RETRIES
             /\ tasks'[t].status # "failed" =>
                  /\ tasks'[t].status = "pending"
                  /\ tasks'[t].worker_id = NULL
                  /\ tasks'[t].claimed_at = NULL]_vars

\* C26 (amended): a failure report on an in_progress row adds one to
\* retry_count and fails the row exactly when the count after the increment
\* has reached 3; otherwise the row is pending; in both cases worker_id and
\* claimed_at are cleared.
C26_FailsAtCeiling ==
    [][\A t \in TaskIds :
          (last'.op = "fail" /\ last'.t = t /\ tasks[t].status = "in_progress") =>
             /\ tasks'[t].retry_count = tasks[t].retry_count + 1
             /\ tasks'[t].status = "failed" <=> tasks'[t].retry_count >= MAX_RETRIES
             /\ tasks'[t].status # "failed" => tasks'[t].status = "pending"
             /\ tasks'[t].worker_id = NULL
             /\ tasks'[t].claimed_at = NULL]_vars

\* the third report on a row has just failed it, and it has no owner
C26_Witness ==
    /\ last.op = "fail"
    /\ last.t \in TaskIds
    /\ tasks[last.t].status = "failed"
    /\ tasks[last.t].retry_count = MAX_RETRIES
    /\ tasks[last.t].worker_id = NULL

\* ------------------------------------------------------------------ C27
\* C27 (Spec): a claim by a worker that owns no in_progress row, with no other
\* claim running, returns the pending row with the lowest id and makes it
\* in_progress with worker_id the worker and claimed_at the time of the call,
\* every other row and column staying as it was; it returns nothing, with no
\* row changed, exactly when no row is pending.
C27_LowestPending ==
    [][\A w \in Workers :
          LET pending == {t \in TaskIds : tasks[t].status = "pending"}
              owned == {t \in TaskIds : tasks[t].status = "in_progress" /\ tasks[t].worker_id = w}
          IN (Claim(w) /\ last'.op = "claim" /\ last'.w = w /\ owned = {}) =>
                /\ last'.ret = 0 <=> pending = {}
                /\ last'.ret = 0 => tasks' = tasks
                /\ last'.ret # 0 =>
                     /\ last'.ret \in pending
                     /\ \A t \in pending : last'.ret <= t
                     /\ tasks' = [tasks EXCEPT ![last'.ret] =
                                    [@ EXCEPT !.status = "in_progress", !.worker_id = w,
                                              !.claimed_at = now]]]_vars

\* a claim has just returned row 2 to its worker, stamped with the time of the
\* call, row 1 being completed or failed
C27_Witness ==
    /\ last.op = "claim"
    /\ last.ret = 2
    /\ tasks[1].status \in {"completed", "failed"}
    /\ tasks[2] = [tasks[2] EXCEPT !.status = "in_progress", !.worker_id = last.w,
                                   !.claimed_at = now]
    /\ now > 0


\* ------------------------------------------------------------------ C28
\* C28: a batch create that runs with no other batch beside it, after any
\* earlier batch creates and removals, takes as its first port the highest
\* port of the rows of the table plus one, or 30000 for an empty table, and
\* every row of the batch is inserted, row i with the first port plus i.
C28_PortsAboveMax ==
    [][\A s \in Sessions :
          (\A o \in Sessions \ {s} : batch[o].pc = "idle") =>
             /\ \A project_id \in Projects, k \in 1..MaxBatch :
                  StartBatch(s, project_id, k) =>
                     batch'[s].next_port =
                        IF containers = {} THEN VNC_PORT_START
                        ELSE LET ports == {PortOf(r.host_port) : r \in containers}
                             IN (CHOOSE p \in ports : \A q \in ports : q <= p) + 1
             /\ InsertRow(s) =>
                  /\ batch'[s].pc = "run"
                  /\ \E r \in containers' \ containers :
                        r.host_port = HostPort(batch[s].next_port + batch[s].i)]_vars

\* ------------------------------------------------------------------ C29
\* C29: the bulk stop of a project stops every row of the project that is
\* running, creating or restarting and that docker can stop, also after a
\* stop that failed, leaves the rows of other projects and the inactive rows
\* alone, and returns the number of rows it stopped: those whose container
\* docker stopped and whose status became exited.
C29_CountsStopped ==
    [][\A project_id \in Projects :
        \A docker \in [ActiveIds(containers, project_id) -> DockerOutcomes] :
          stop_all_containers_for_project(project_id, docker) =>
             LET active == {r \in containers :
                              /\ r.project_id = project_id
                              /\ r.status \in {"running", "creating", "restarting"}}
             IN /\ \A r \in active :
                     docker[r.id] = "stopped" => [r EXCEPT !.status = "exited"] \in containers'
                /\ \A r \in containers \ active : r \in containers'
                /\ last'.ret = Cardinality({r \in active :
                                    /\ docker[r.id] = "stopped"
                                    /\ [r EXCEPT !.status = "exited"] \in containers'})]_vars

\* ------------------------------------------------------------------ C30
\* C30 as stated: for every container, with a rule in Redis or without,
\* force_reassign_container starts the release of the container, and it
\* returns what the assign that follows the release gives.
C30_ForceIsReleaseAssign ==
    [][/\ \A ip \in IPs :
            force_reassign_container("req1", ip) =>
               thr'["req1"].pc = "hget" /\ thr'["req1"].ip = ip
       /\ (thr'["req1"].op = "force" /\ thr'["req1"].pc = "idle" /\ thr["req1"] # thr'["req1"]) =>
             thr'["req1"].res \in {"ok", "error"}]_vars

\* C30 (amended): for a container with a rule in Redis,
\* force_reassign_container keeps the group of that rule as old_group and
\* runs release and then assign: the release ends with no rule of the
\* container in Redis and is followed by the assign whatever it met; the call
\* returns when the assign does, with old_group and the new group whose rule
\* is then in Redis and at the head of the rules of config.yml, or with the
\* failure of the assign and the container released. For a container with no
\* rule in Redis it returns a failure and changes nothing.
C30_ForceStep ==
    LET t == thr["req1"]
        u == thr'["req1"]
    IN /\ \A ip \in IPs :
            force_reassign_container("req1", ip) =>
               /\ container_proxy_rules' = container_proxy_rules /\ config' = config
               /\ IF ip \in DOMAIN container_proxy_rules
                  THEN /\ u.pc = "hget" /\ u.op = "force" /\ u.ip = ip
                       /\ u.old_group = container_proxy_rules[ip][3]
                  ELSE u.pc = "idle" /\ u.res = "no_rule"
       /\ (t.op = "force" /\ t.pc \in {"hget", "r_read", "r_write", "hdel"}
             /\ u.pc \notin {"hget", "r_read", "r_write", "hdel"}) =>
             /\ u.pc = "get_healthy" /\ u.op = "force" /\ u.ip = t.ip
             /\ u.old_group = t.old_group
             /\ t.ip \notin DOMAIN container_proxy_rules'
       /\ (t.op = "force" /\ t.pc # "idle" /\ u.pc = "idle") =>
             /\ u.res \in {"ok", "error"}
             /\ u.old_group = t.old_group
             /\ u.res = "ok" =>
                  /\ container_proxy_rules'[t.ip] = Rule(t.ip, u.group)
                  /\ config'.rules[1] = Rule(t.ip, u.group)
             /\ u.res = "error" => t.ip \notin DOMAIN container_proxy_rules'
C30_ForceReleasesThenAssigns == [][C30_ForceStep]_vars

\* a forced reassignment has returned: the container had g1 and now has the
\* rule of g2 in Redis and no rule of g1 in config.yml
C30_Witness ==
    /\ thr["req1"].op = "force"
    /\ thr["req1"].pc = "idle"
    /\ thr["req1"].res = "ok"
    /\ thr["req1"].old_group = "g1"
    /\ thr["req1"].group = "g2"
    /\ container_proxy_rules["ip1"] = Rule("ip1", "g2")
    /\ Rule("ip1", "g1") \notin Range(config.rules)

\* ------------------------------------------------------------------ C31
\* C31: in every state the process runs at most one health-check thread and at
\* most one reassignment thread, whatever startups and initialisation requests
\* came before.
C31_OneLoopEach == boot.health_threads <= 1 /\ boot.reassign_threads <= 1

\* ------------------------------------------------------------------ C32
\* C32: a group whose blacklist entry has expired (now > blacklist_until) is
\* not taken as blacklisted by the read of the healthy groups of an assign, by
\* a tick of the reassignment loop or by the health report, and each of them
\* leaves proxy_group_blacklist without the entry.
C32_ExpiredNotBlacklisted ==
    [][LET expired == {g \in DOMAIN proxy_group_blacklist : now > proxy_group_blacklist[g]}
       IN /\ reassign_unhealthy_containers("loop") =>
               /\ thr'["loop"].bl \cap expired = {}
               /\ DOMAIN proxy_group_blacklist' \cap expired = {}
          /\ get_proxy_groups_health_status("req1") =>
               /\ thr'["req1"].bl \cap expired = {}
               /\ DOMAIN proxy_group_blacklist' \cap expired = {}
          /\ ReadBlacklist("loop") => thr'["loop"].expired = expired]_vars


\* C33: neither background loop stops because of an error: after a tick of
\* the health-check loop whose error reached the handler of the loop, and
\* after a tick of the reassignment loop in which an error was caught, the
\* loop runs another tick (within the ticks the model counts)
C33_LoopsResume ==
    /\ \A k \in 0..(MaxIterations - 1) :
         (health.pc = "caught" /\ health.n = k) ~> (health.pc = "probe" \/ health.n > k)
    /\ \A k \in 0..(MaxTicks - 1) :
         ((thr["loop"].res = "error" \/ thr["loop"].errors # {}) /\ thr["loop"].ticks = k)
           ~> (thr["loop"].ticks > k)

\* the health-check loop is in its handler while the reassignment loop has
\* caught the error of a container
C33_Witness ==
    /\ health.pc = "caught"
    /\ thr["loop"].ticks < MaxTicks /\ thr["loop"].errors # {}


\* C34: after a merge that wrote config.yml no rule of the file ends with a
\* name that is neither a group of that merge nor DIRECT, and the file holds
\* GEOIP,CN,DIRECT and a MATCH rule
C34_SweptRules ==
    [][\A g \in Provided, readable \in BOOLEAN :
         refresh_clash_configuration(g, readable, TRUE) =>
           /\ \A i \in DOMAIN config'.rules :
                config'.rules[i][Len(config'.rules[i])] \in Range(g) \cup {"DIRECT"}
           /\ \E i \in DOMAIN config'.rules : config'.rules[i] = DefaultRules[1]
           /\ \E i \in DOMAIN config'.rules : config'.rules[i][1] = "MATCH"]_vars


\* the container rules of a list of rules whose group is one of groups, in
\* their order
ContainerRulesOf(rules, groups) ==
    SelectSeq(rules, LAMBDA rule : IsContainerRule(rule) /\ AssignedGroup(rule) \in Range(groups))

\* C35: a merge that wrote config.yml replaced only proxies and proxy-groups:
\* the container rules of the groups it emitted are in the file in their
\* order, container_proxy_rules is as it was, and the other top-level keys
\* have the values they had
C35_OnlyProxiesReplaced ==
    [][\A g \in Provided, readable \in BOOLEAN :
         refresh_clash_configuration(g, readable, TRUE) =>
           /\ ContainerRulesOf(config'.rules, g) = ContainerRulesOf(config.rules, g)
           /\ container_proxy_rules' = container_proxy_rules
           /\ config'.other = config.other]_vars


\* C36: a result or a failure report for a row that is in_progress with
\* another worker, sent by a worker that held the row before, changes neither
\* the status, nor the retry_count, nor the worker_id of the row; and a row
\* becomes completed only from in_progress
C36_OnlyClaimantFinishes ==
    [][/\ \A p \in handed :
            (/\ last'.op \in {"submit", "fail"} /\ last'.w = p[1] /\ last'.t = p[2]
             /\ tasks[p[2]].status = "in_progress" /\ tasks[p[2]].worker_id # p[1])
              => /\ tasks'[p[2]].status = tasks[p[2]].status
                 /\ tasks'[p[2]].retry_count = tasks[p[2]].retry_count
                 /\ tasks'[p[2]].worker_id = tasks[p[2]].worker_id
       /\ \A t \in TaskIds :
            (tasks'[t].status = "completed" /\ tasks[t].status # "completed")
              => tasks[t].status = "in_progress"]_vars


\* C37: no worker_id owns more than one in_progress row of the task table
C37_OneRowPerWorker ==
    \A w \in Workers :
        Cardinality({t \in TaskIds : tasks[t].status = "in_progress" /\ tasks[t].worker_id = w}) <= 1


\* C38: config.yml holds at most one container rule for a container IP
C38_OneRulePerContainer ==
    \A ip \in IPs :
        Cardinality({i \in DOMAIN config.rules :
                       IsContainerRule(config.rules[i]) /\ config.rules[i][2][1] = ip}) <= 1


\* C39: when no assign and no release is in progress, Redis holds rule r for a
\* container IP exactly when r is a container rule of that IP in config.yml
C39_StoreAgreesWithFile ==
    (\A x \in Threads : thr[x].pc = "idle") =>
        LET on_disk == IF config.exists THEN Range(config.rules) ELSE {}
        IN \A ip \in IPs, r \in on_disk \cup Range(container_proxy_rules) :
             (ip \in DOMAIN container_proxy_rules /\ container_proxy_rules[ip] = r)
               <=> (r \in on_disk /\ IsContainerRule(r) /\ r[2][1] = ip)


\* C40: a submit_result with rows for a task that is already completed
\* inserts nothing: the count of the result table is what it was
C40_StoredOnce ==
    [][(/\ last'.op = "submit" /\ last'.ret > 0
        /\ last'.t \in TaskIds /\ tasks[last'.t].status = "completed")
         => Len(results') = Len(results)]_vars
====
